---- MODULE Spec2Model ----
(***************************************************************************)
(* Model of the SOM reduction-propagation engine                           *)
(* (protect_baltic/src/som/som_app.py and som_tools.py).                   *)
(*                                                                         *)
(* One replicate is modelled: build_links draws one reduction per link,    *)
(* build_changes normalizes the contribution tables and then runs the      *)
(* three-stage simulation loop time_steps times.  Every loop iteration of  *)
(* build_changes that touches a table is one action.                       *)
(*                                                                         *)
(* Numbers are exact rationals <<n, d>> with d >= 0, extended with the     *)
(* IEEE-754 specials the numpy arithmetic produces: <<1,0>> is +inf,       *)
(* <<-1,0>> is -inf and <<0,0>> is NaN.  Rounding error of float64 is not  *)
(* modelled.                                                               *)
(***************************************************************************)
EXTENDS Integers, Sequences, FiniteSets, TLC

\* ---------------------------------------------------------------- bounds

\* largest value of the time_steps argument of build_changes that is explored
MaxTimeSteps == 2

\* largest number of rows of the raw case tables that build_cases is explored on
MaxCaseRows == 2

\* largest number of experts of a survey block that get_prob_dist is explored on
MaxExperts == 2

\* largest number of replicates of a run (config['simulations'])
MaxSims == 3

\* ------------------------------------------------- float64 as rationals

Abs(x) == IF x < 0 THEN -x ELSE x

Sign(x) == IF x > 0 THEN 1 ELSE IF x < 0 THEN -1 ELSE 0

RECURSIVE GCD(_, _)
GCD(a, b) == IF b = 0 THEN a ELSE GCD(b, a % b)

\* the value n/d (d >= 0) in lowest terms; d = 0 gives inf, -inf or NaN
Norm(n, d) ==
    IF d = 0 THEN <<Sign(n), 0>>
    ELSE LET g == GCD(Abs(n), d) IN <<n \div g, d \div g>>

Zero == <<0, 1>>
One == <<1, 1>>
Half == <<1, 2>>
PosInf == <<1, 0>>
NegInf == <<-1, 0>>
NaN == <<0, 0>>

IsNaN(a) == a = NaN
IsFinite(a) == a[2] > 0

Neg(a) == <<-a[1], a[2]>>

Mul(a, b) == Norm(a[1] * b[1], a[2] * b[2])

Add(a, b) ==
    IF IsFinite(a) /\ IsFinite(b) THEN Norm(a[1] * b[2] + b[1] * a[2], a[2] * b[2])
    ELSE IF IsNaN(a) \/ IsNaN(b) THEN NaN
    ELSE IF IsFinite(b) THEN a
    ELSE IF IsFinite(a) THEN b
    ELSE IF a = b THEN a ELSE NaN

Sub(a, b) == Add(a, Neg(b))

\* numpy/pandas float division: x/0 is +-inf, 0/0 is NaN, nothing is raised
Div(a, b) ==
    IF b[1] < 0 THEN Norm(-(a[1] * b[2]), a[2] * (-b[1]))
    ELSE Norm(a[1] * b[2], a[2] * b[1])

\* a <= b; every comparison with NaN is False
Leq(a, b) ==
    IF IsNaN(a) \/ IsNaN(b) THEN FALSE
    ELSE IF a = b THEN TRUE
    ELSE IF a = NegInf \/ b = PosInf THEN TRUE
    ELSE IF a = PosInf \/ b = NegInf THEN FALSE
    ELSE a[1] * b[2] <= b[1] * a[2]

\* a > b; every comparison with NaN is False
Gt(a, b) == ~IsNaN(a) /\ ~IsNaN(b) /\ ~Leq(a, b)

InUnit(a) == Leq(Zero, a) /\ Leq(a, One)

\* pandas Series.sum(): NaN entries are skipped (skipna=True)
SumSeq(s) ==
    LET F[i \in 0..Len(s)] ==
            IF i = 0 THEN Zero
            ELSE IF IsNaN(s[i]) THEN F[i - 1]
            ELSE Add(F[i - 1], s[i])
    IN F[Len(s)]

\* ------------------------------------------------------ sequence helpers

\* the concatenation of the sequences of ss
Flatten(ss) ==
    LET F[i \in 0..Len(ss)] == IF i = 0 THEN <<>> ELSE F[i - 1] \o ss[i]
    IN F[Len(ss)]

\* the indices of s whose element satisfies Test, in order
Indices(s, Test(_)) ==
    LET F[i \in 0..Len(s)] ==
            IF i = 0 THEN <<>>
            ELSE IF Test(s[i]) THEN Append(F[i - 1], i) ELSE F[i - 1]
    IN F[Len(s)]

\* pandas Series.unique(): distinct values in order of first appearance
Unique(s) ==
    LET F[i \in 0..Len(s)] ==
            IF i = 0 THEN <<>>
            ELSE IF \E j \in 1..(i - 1) : s[j] = s[i] THEN F[i - 1]
            ELSE Append(F[i - 1], s[i])
    IN F[Len(s)]

Range(s) == {s[i] : i \in 1..Len(s)}

MapSeq(s, F(_)) == [i \in 1..Len(s) |-> F(s[i])]

\* -------------------------------------------------------- identifier tables

\* data['pressure']['ID'] and data['state']['ID']: P = 1, Q = 2; S = 1
PressureIDs == <<1, 2>>
StateIDs == <<1>>

\* ------------------------------------------------- empirical distributions

\* number of buckets of a distribution built by get_dist_from_picks
NumBuckets == 101

\* the 'probability' cell of a measure_effects row: an array of bucket weights,
\* the float nan that get_prob_dist returns without expert answers, or None.
\* An array is kept as its size and its non-zero entries (index 0..size-1).
ArrayDist(n, w) == [kind |-> "array", size |-> n, p |-> w]
NanDist == [kind |-> "nan", size |-> 0, p |-> <<>>]
NoneDist == [kind |-> "None", size |-> 0, p |-> <<>>]

\* all picks fell into bucket b (b per cent)
PointDist(b) == ArrayDist(NumBuckets, [i \in {b} |-> One])

\* half of the picks fell into bucket b1, half into bucket b2
TwoPointDist(b1, b2) == ArrayDist(NumBuckets, [i \in {b1, b2} |-> Half])

\* get_pick: the outcomes of one call.  np.random.choice draws one of the
\* grid points i * step whose weight is positive, and raises ValueError when a
\* weight is nan.  `dist is not None` is true of the float nan, and nan.size
\* raises AttributeError.
get_pick(dist) ==
    IF dist.kind = "None" THEN {[raised |-> "none", pick |-> NaN]}
    ELSE IF dist.kind = "nan" THEN {[raised |-> "AttributeError", pick |-> NaN]}
    ELSE IF \E j \in DOMAIN dist.p : IsNaN(dist.p[j])
    THEN {[raised |-> "ValueError", pick |-> NaN]}
    ELSE {[raised |-> "none", pick |-> Norm(i, dist.size - 1)] :
               i \in {j \in DOMAIN dist.p : Gt(dist.p[j], Zero)}}

\* --------------------------------------------------------- get_prob_dist

\* number of picks drawn per unit of expert weight
number_of_picks == 5000

\* numpy's rint: the nearest integer of a finite value, a tie to the even one
Rint(a) ==
    LET q == (2 * a[1] + a[2]) \div (2 * a[2]) IN
    IF (2 * a[1] + a[2]) % (2 * a[2]) = 0 /\ q % 2 = 1 THEN q - 1 ELSE q

\* mutant of Round2: the value is cut off after two decimals
Round2_Truncating(a) == Norm((a[1] * 100) \div a[2], 100)

\* np.round(a, decimals=2): rint(a * 100) / 100
Round2(a) == Norm(Rint(Mul(a, <<100, 1>>)), 100)

\* one expert of a survey block: the answers in per cent (nan = no answer)
\* and the weight
Expert(e, l, u, w) == [expected |-> e, lower |-> l, upper |-> u, weight |-> w]

\* np.sort of the row (lower, expected, upper): ascending, nan last
SortRow(x) ==
    LET t == <<x.lower, x.expected, x.upper>>
        rows == {[i \in 1..3 |-> t[f[i]]] : f \in Permutations(1..3)}
    IN CHOOSE r \in rows : \A i \in 1..2 : IsNaN(r[i + 1]) \/ Leq(r[i], r[i + 1])

\* an array of picks is kept as a sequence of runs [value, count]
Run(v, n) == [value |-> v, count |-> n]

\* pert_dist: the arrays of picks one call can return.  With low = peak = high
\* it is `size` copies of peak.  Otherwise the picks are random values between
\* low and high: all at one end, all at the peak, or half at each end.
pert_dist(peak, low, high, size) ==
    IF size = 0 THEN {<<>>}
    ELSE IF low = high /\ low = peak THEN {<<Run(peak, size)>>}
    ELSE { <<Run(low, size)>>, <<Run(peak, size)>>, <<Run(high, size)>>,
           <<Run(low, size \div 2), Run(high, size - size \div 2)>> }

\* the picks are pooled expert after expert; an expert with a nan answer is
\* skipped
RECURSIVE PoolChoices(_)
PoolChoices(experts) ==
    IF experts = <<>> THEN {<<>>}
    ELSE LET x == Head(experts)
             r == SortRow(x)
             own == IF IsNaN(r[1]) \/ IsNaN(r[2]) \/ IsNaN(r[3]) THEN {<<>>}
                    ELSE pert_dist(r[2], r[1], r[3], x.weight * number_of_picks)
         IN {a \o b : a \in own, b \in PoolChoices(Tail(experts))}

\* get_dist_from_picks: the picks are rounded to two decimals, bucket i gets
\* the number of picks equal to i / 100, and the counts are divided by their
\* sum
get_dist_from_picks(picks) ==
    LET hits(i) == {k \in 1..Len(picks) : Round2(picks[k].value) = Norm(i, 100)}
        Count(ks) ==
            LET F[k \in 0..Len(picks)] ==
                    IF k = 0 THEN 0
                    ELSE F[k - 1] + (IF k \in ks THEN picks[k].count ELSE 0)
            IN F[Len(picks)]
        buckets == 0..(NumBuckets - 1)
        total == Count(UNION {hits(i) : i \in buckets})
        kept == {i \in buckets : total = 0 \/ hits(i) # {}}
    IN ArrayDist(NumBuckets, [i \in kept |-> Div(<<Count(hits(i)), 1>>, <<total, 1>>)])

\* get_prob_dist: the distributions one call can return for the experts of a
\* block; the float nan when no pick was drawn
get_prob_dist(experts) ==
    { IF pool = <<>> THEN NanDist
      ELSE get_dist_from_picks(MapSeq(pool, LAMBDA r : Run(Div(r.value, <<100, 1>>), r.count))) :
          pool \in PoolChoices(experts) }

\* the answers of the experts: one value for all three questions, a spread in
\* and out of the range 0..100, answers in the wrong order, a missing answer
AnswerRows ==
    { <<v, v, v>> : v \in {<<-10, 1>>, <<0, 1>>, <<62, 5>>, <<63, 5>>, <<50, 1>>,
                           <<100, 1>>, <<150, 1>>} }
    \union { <<<<50, 1>>, <<0, 1>>, <<100, 1>>>>, <<<<50, 1>>, <<100, 1>>, <<0, 1>>>>,
             <<<<100, 1>>, <<50, 1>>, <<150, 1>>>>, <<NaN, <<50, 1>>, <<50, 1>>>> }

ExpertChoices == {Expert(t[1], t[2], t[3], w) : t \in AnswerRows, w \in {0, 1, 2}}

\* the survey blocks of at most MaxExperts experts
SurveyInputs == UNION {[1..n -> ExpertChoices] : n \in 0..MaxExperts}

\* ------------------------------------------------------------ input tables

EffectRow(m, a, p, s, d) ==
    [measure |-> m, activity |-> a, pressure |-> p, state |-> s, probability |-> d]

CaseRow(m, a, p, s, ar, cov, imp) ==
    [measure |-> m, activity |-> a, pressure |-> p, state |-> s, area_id |-> ar,
     coverage |-> cov, implementation |-> imp]

ActRow(a, p, ar, v) == [Activity |-> a, Pressure |-> p, area_id |-> ar, value |-> v]

PressRow(s, p, ar, v) == [State |-> s, pressure |-> p, area_id |-> ar, average |-> v]

OverlapRow(o1, o2, p, a, mu) ==
    [Overlapping |-> o1, Overlapped |-> o2, Pressure |-> p, Activity |-> a, Multiplier |-> mu]

\* read_subpressures.assign_multiplier: classes up to 1 are their own multiplier
assign_multiplier(equivalence) ==
    IF Leq(equivalence, One) THEN equivalence ELSE Zero

SubRow(s, sp, rp, eq) ==
    [State |-> s, State_pressure |-> sp, Reduced_pressure |-> rp,
     Equivalence |-> eq, Multiplier |-> assign_multiplier(eq)]

\* measure_effects tables (data['measure_effects'])
EffectTables ==
    { <<>>,
      <<EffectRow(1, 0, 1, 0, PointDist(50))>>,
      <<EffectRow(1, 0, 1, 0, PointDist(50)), EffectRow(2, 0, 1, 0, TwoPointDist(50, 100))>>,
      <<EffectRow(1, 1, 1, 0, PointDist(50)), EffectRow(2, 1, 1, 0, TwoPointDist(50, 100))>>,
      <<EffectRow(1, 1, 2, 0, PointDist(100)), EffectRow(2, 1, 1, 0, TwoPointDist(50, 100))>>,
      <<EffectRow(1, 1, 1, 0, PointDist(50)), EffectRow(1, 1, 1, 0, PointDist(100))>>,
      <<EffectRow(1, 1, 1, 0, PointDist(50)), EffectRow(2, 1, 1, 0, NanDist)>>,
      <<EffectRow(1, 0, 0, 1, PointDist(50)), EffectRow(2, 1, 1, 1, PointDist(50))>>,
      <<EffectRow(1, 1, 1, 0, PointDist(50)), EffectRow(1, 2, 2, 0, PointDist(50))>> }

\* raw case tables (data['cases'] as read_cases returns it); 0 = all relevant
CaseTables ==
    { <<>>,
      <<CaseRow(1, 0, 0, 0, 1, One, One)>>,
      <<CaseRow(1, 0, 0, 0, 1, One, One), CaseRow(2, 0, 0, 0, 1, One, One)>>,
      <<CaseRow(2, 0, 0, 0, 1, One, One), CaseRow(1, 0, 0, 0, 1, One, One)>>,
      <<CaseRow(1, 0, 0, 0, 2, One, One), CaseRow(1, 0, 0, 0, 1, Half, One)>>,
      <<CaseRow(2, 1, 1, 0, 1, One, Half), CaseRow(2, 1, 1, 0, 1, One, One)>> }

\* activity contribution tables (data['activity_contributions'])
ActTables ==
    { <<>>,
      <<ActRow(1, 1, 1, One), ActRow(1, 2, 1, One)>>,
      <<ActRow(1, 1, 1, Half), ActRow(2, 1, 1, Half), ActRow(1, 2, 1, One)>>,
      <<ActRow(1, 1, 1, One), ActRow(2, 1, 1, Half), ActRow(1, 1, 2, One), ActRow(2, 1, 2, One)>>,
      <<ActRow(0, 1, 1, One)>> }

\* pressure contribution tables (data['pressure_contributions'])
PressTables ==
    { <<>>,
      <<PressRow(1, 1, 1, One)>>,
      <<PressRow(1, 1, 1, Half), PressRow(1, 2, 1, Half)>>,
      <<PressRow(1, 1, 1, One), PressRow(1, 2, 1, Half), PressRow(1, 1, 2, One), PressRow(1, 2, 2, One)>> }

\* overlap tables (data['overlaps'])
OverlapTables ==
    { <<>>,
      <<OverlapRow(1, 2, 1, 0, Half)>>,
      <<OverlapRow(1, 2, 1, 1, Half)>>,
      <<OverlapRow(1, 2, 2, 1, Half), OverlapRow(2, 1, 1, 1, Half)>> }

\* the threshold columns of data['thresholds']
ThresholdCols == {"PR", "10", "25", "50"}

ThresholdRow(s, ar, pr, t10, t25, t50) ==
    [c \in {"State", "area_id"} \cup ThresholdCols |->
        CASE c = "State" -> s
          [] c = "area_id" -> ar
          [] c = "PR" -> pr
          [] c = "10" -> t10
          [] c = "25" -> t25
          [] c = "50" -> t50]

\* the threshold table of the runs (data['thresholds']): rows for area 1 and
\* for an area without cases, none for area 2
ThresholdTable ==
    <<ThresholdRow(1, 1, <<1, 5>>, <<1, 10>>, <<1, 4>>, Half),
      ThresholdRow(1, 3, Half, <<1, 10>>, <<1, 4>>, Half)>>

\* data['thresholds'] on entry of build_changes: the input table
InputThresholds == [table |-> "input"]

\* subpressure tables (data['subpressures'])
SubTables ==
    { <<>>,
      <<SubRow(1, 1, 2, Half)>>,
      <<SubRow(1, 1, 2, One)>> }

\* ------------------------------------------------------------------ state

VARIABLES
    measure_effects,                \* data['measure_effects']
    cases,                          \* data['cases']
    links,                          \* the table build_links returns
    activity_contributions,         \* data['activity_contributions']
    pressure_contributions,         \* data['pressure_contributions']
    overlaps,                       \* data['overlaps']
    subpressures,                   \* data['subpressures']
    survey,                         \* the expert answers of the survey block of a link
    thresholds,                     \* the threshold table that data['thresholds'] holds on entry
    data_thresholds,                \* data['thresholds']: the input table, or the tables build_changes puts there
    time_steps,                     \* argument of build_changes (0 before the call)
    pressure_levels,                \* [<<pressure ID, area>> -> fraction left]
    total_pressure_load_levels,     \* [<<state ID, area>> -> fraction left]
    total_pressure_load_reductions, \* [<<state ID, area>> -> reduction]
    pc,                             \* position in the replicate
    time_step,                      \* loop variable of the simulation loop
    work,                           \* the iterations left of the innermost loops of the current stage
    reduction,                      \* local of build_changes
    contribution,                   \* local of build_changes
    relevant_overlaps,              \* local of build_changes, set in stage 1
    relevant_pressures,             \* local of build_changes, set in stage 3
    error,                          \* the exception that ended the replicate
    config,                         \* the configuration run() has loaded
    sheet,                          \* the pressure survey sheet build_input reads
    run_pc,                         \* position in run()
    load_error,                     \* the exception build_input raised
    sim_pc,                         \* position of every replicate in run_sim
    progress,                       \* the manager's namespace: current, total
    lock,                           \* the replicate that holds the manager's lock
    got,                            \* progress.current as read by "+=" of each replicate
    log,                            \* what each replicate has printed to its log
    heap,                           \* the table objects: input_data, its pickled and its deep copies
    data,                           \* the object each replicate works on
    runs                            \* two runs of the program on the same input and config

vars ==
    <<measure_effects, cases, links, activity_contributions, pressure_contributions,
      overlaps, subpressures, survey, thresholds, data_thresholds, time_steps, pressure_levels,
      total_pressure_load_levels, total_pressure_load_reductions, pc, time_step, work, reduction, contribution,
      relevant_overlaps, relevant_pressures, error,
      config, sheet, run_pc, load_error, sim_pc, progress, lock, got, log, heap, data,
      runs>>

\* the state of run() and of the replicates it starts
driver ==
    <<config, sheet, run_pc, load_error, sim_pc, progress, lock, got, log, heap, data, runs>>

\* what the engine of a replicate never writes
tables == <<measure_effects, overlaps, subpressures, survey, thresholds, driver>>

\* no replicate holds the lock
Free == -1

\* the objects of the heap: input_data of run(), the argument a pool worker
\* unpickles for replicate i, and the deep copy replicate i makes
Input == <<"input", 0>>
Job(i) == <<"job", i>>
Copy(i) == <<"copy", i>>

\* the contribution tables of an object of the heap
Tables(ac, pcs) == [activity_contributions |-> ac, pressure_contributions |-> pcs]

\* the engine on its own is replicate 0 of a run of one, inside the try
\* block of run_sim
InReplicate ==
    /\ config = [simulations |-> 1, use_parallel_processing |-> FALSE, skip_sim |-> FALSE,
                 use_scenario |-> FALSE]
    /\ sheet = [questions |-> 1, answers |-> <<1>>]
    /\ run_pc = "simulate"
    /\ load_error = "none"
    /\ sim_pc = [i \in {0} |-> "try"]
    /\ progress = [current |-> 0, total |-> 1]
    /\ lock = Free
    /\ got = [i \in {0} |-> 0]
    /\ log = [i \in {0} |-> <<"sim">>]
    /\ heap = [x \in {Input} |-> Tables(<<>>, <<>>)]
    /\ data = [i \in {0} |-> Input]
    /\ runs = <<>>

locals == <<reduction, contribution, relevant_overlaps, relevant_pressures>>

\* the tables build_changes returns
levels ==
    <<pressure_levels, total_pressure_load_levels, total_pressure_load_reductions,
      data_thresholds>>

Init ==
    /\ measure_effects \in EffectTables
    /\ cases \in CaseTables
    /\ activity_contributions \in ActTables
    /\ pressure_contributions \in PressTables
    /\ overlaps \in OverlapTables
    /\ subpressures \in SubTables
    /\ survey = <<>>
    /\ thresholds = ThresholdTable
    /\ data_thresholds = InputThresholds
    /\ time_steps = 0
    /\ links = <<>>
    /\ pressure_levels = <<>>
    /\ total_pressure_load_levels = <<>>
    /\ total_pressure_load_reductions = <<>>
    /\ pc = "build_links"
    /\ time_step = 0
    /\ work = <<>>
    /\ reduction = Zero
    /\ contribution = Zero
    /\ relevant_overlaps = <<>>
    /\ relevant_pressures = <<>>
    /\ error = "none"
    /\ InReplicate

\* ------------------------------------------------------------ build_links

LinkKey(r) == <<r.measure, r.activity, r.pressure, r.state>>

\* mutant of duplicated: the duplicate check finds nothing
duplicated_FindsNothing(msdf) == {}

\* msdf.duplicated([...]): the rows whose key occurred in an earlier row
duplicated(msdf) ==
    {i \in 1..Len(msdf) : \E j \in 1..(i - 1) : LinkKey(msdf[j]) = LinkKey(msdf[i])}

\* one get_pick outcome per row of the 'probability' column
PickChoices(msdf) ==
    {f \in [1..Len(msdf) -> UNION {get_pick(msdf[i].probability) : i \in 1..Len(msdf)}] :
        \A i \in 1..Len(msdf) : f[i] \in get_pick(msdf[i].probability)}

LinkRow(r, pick) ==
    [measure |-> r.measure, activity |-> r.activity, pressure |-> r.pressure,
     state |-> r.state, reduction |-> pick]

\* build_links: the assertion on duplicate keys, then one pick per row
BuildLinks ==
    /\ pc = "build_links"
    /\ \E f \in PickChoices(measure_effects) :
        LET raising == {i \in 1..Len(measure_effects) : f[i].raised # "none"} IN
        IF duplicated(measure_effects) # {}
        THEN /\ pc' = "failed"
             /\ error' = "AssertionError"
             /\ links' = links
        ELSE IF raising # {}
        THEN /\ pc' = "failed"
             /\ error' = f[CHOOSE i \in raising : \A j \in raising : i <= j].raised
             /\ links' = links
        ELSE /\ pc' = "build_cases"
             /\ error' = error
             /\ links' = [i \in 1..Len(measure_effects) |-> LinkRow(measure_effects[i], f[i].pick)]
    /\ UNCHANGED <<tables, time_steps, cases, activity_contributions, pressure_contributions,
                   levels, locals, time_step, work>>

\* ------------------------------------------------------------ build_cases

CaseCols == <<"activity", "pressure", "state">>

\* mutant of CaseColValues: the cell is replaced by the values of the links
\* also when it is not 0
CaseColValues_AllFromLinks(row, maps_links, col) ==
    Unique(MapSeq(maps_links, LAMBDA l : l[col]))

\* the values a case row takes in column col: every value the column has among
\* the links of the row's measure when the cell is 0, else the cell itself
CaseColValues(row, maps_links, col) ==
    IF row[col] = 0 THEN Unique(MapSeq(maps_links, LAMBDA l : l[col])) ELSE <<row[col]>>

\* mutant of ExplodeCase: a row whose measure has no link is kept as it is
ExplodeCase_KeepsUnlinked(row, ls) ==
    LET maps_links == SelectSeq(ls, LAMBDA l : l.measure = row.measure) IN
    IF maps_links = <<>> THEN <<row>>
    ELSE Flatten(MapSeq(CaseColValues(row, maps_links, "activity"), LAMBDA a :
           Flatten(MapSeq(CaseColValues(row, maps_links, "pressure"), LAMBDA p :
             MapSeq(CaseColValues(row, maps_links, "state"), LAMBDA s :
               [row EXCEPT !.activity = a, !.pressure = p, !.state = s])))))

\* one case row after the replacement of zeros and the three explode() calls;
\* a row whose measure has no link is dropped
ExplodeCase(row, ls) ==
    LET maps_links == SelectSeq(ls, LAMBDA l : l.measure = row.measure) IN
    IF maps_links = <<>> THEN <<>>
    ELSE Flatten(MapSeq(CaseColValues(row, maps_links, "activity"), LAMBDA a :
           Flatten(MapSeq(CaseColValues(row, maps_links, "pressure"), LAMBDA p :
             MapSeq(CaseColValues(row, maps_links, "state"), LAMBDA s :
               [row EXCEPT !.activity = a, !.pressure = p, !.state = s])))))

\* the isin() filter: each of the four columns has a value that occurs in the
\* same column of some link
existing_links(c, ls) ==
    /\ \E l \in Range(ls) : l.measure = c.measure
    /\ \E l \in Range(ls) : l.activity = c.activity
    /\ \E l \in Range(ls) : l.pressure = c.pressure
    /\ \E l \in Range(ls) : l.state = c.state

\* row a sorts strictly before row b under sort_values(by=['coverage',
\* 'implementation'], ascending=[False, False])
SortsBefore(a, b) ==
    \/ Gt(a.coverage, b.coverage)
    \/ a.coverage = b.coverage /\ Gt(a.implementation, b.implementation)

\* stable sort: a row goes behind every row that does not sort after it
RECURSIVE InsertSorted(_, _)
InsertSorted(sorted, r) ==
    IF sorted = <<>> THEN <<r>>
    ELSE IF SortsBefore(r, Head(sorted)) THEN <<r>> \o sorted
    ELSE <<Head(sorted)>> \o InsertSorted(Tail(sorted), r)

\* mutant of sort_values: the table is left in its order
sort_values_Unsorted(cs) == cs

sort_values(cs) ==
    LET F[i \in 0..Len(cs)] == IF i = 0 THEN <<>> ELSE InsertSorted(F[i - 1], cs[i])
    IN F[Len(cs)]

CaseKey(c) == <<c.measure, c.activity, c.pressure, c.state, c.area_id>>

\* drop_duplicates(subset=[...], keep='first')
drop_duplicates(cs) ==
    LET F[i \in 0..Len(cs)] ==
            IF i = 0 THEN <<>>
            ELSE IF \E j \in 1..(i - 1) : CaseKey(cs[j]) = CaseKey(cs[i]) THEN F[i - 1]
            ELSE Append(F[i - 1], cs[i])
    IN F[Len(cs)]

build_cases(cs, ls) ==
    LET exploded == Flatten(MapSeq(cs, LAMBDA row : ExplodeCase(row, ls)))
        filtered == SelectSeq(exploded, LAMBDA c : existing_links(c, ls))
    IN drop_duplicates(sort_values(filtered))

BuildCases ==
    /\ pc = "build_cases"
    /\ cases' = build_cases(cases, links)
    /\ pc' = "build_changes"
    /\ UNCHANGED <<tables, time_steps, links, activity_contributions, pressure_contributions,
                   levels, locals, time_step, work, error>>

\* ---------------------------------------------------------- build_changes

\* cases['area_id'].unique()
areas(cs) == Unique(MapSeq(cs, LAMBDA c : c.area_id))

\* a table with one row per ID and one column per area, filled with v
LevelTable(ids, ars, v) == [k \in Range(ids) \X Range(ars) |-> v]

ActivityGroup(ac, area, p) ==
    SelectSeq(ac, LAMBDA r : r.area_id = area /\ r.Pressure = p)

PressureGroup(pcs, area, s) ==
    SelectSeq(pcs, LAMBDA r : r.area_id = area /\ r.State = s)

ActivitySum(ac, area, p) == SumSeq(MapSeq(ActivityGroup(ac, area, p), LAMBDA r : r.value))

PressureSum(pcs, area, s) == SumSeq(MapSeq(PressureGroup(pcs, area, s), LAMBDA r : r.average))

\* mutant of NormalizeActivityContributions: the groups of every area of the
\* table are normalized, also those of an area without cases
NormalizeActivityContributions_EveryArea(ac, ars) ==
    [i \in 1..Len(ac) |->
        IF /\ ac[i].Pressure \in Range(PressureIDs)
           /\ Gt(ActivitySum(ac, ac[i].area_id, ac[i].Pressure), One)
        THEN [ac[i] EXCEPT !.value = Div(@, ActivitySum(ac, ac[i].area_id, ac[i].Pressure))]
        ELSE ac[i]]

\* "make sure activity contributions don't exceed 100 %": for each area of the
\* cases and each pressure ID, a group that sums to more than 1 is divided by
\* its sum (the groups are disjoint, so the loop is a row-wise map)
NormalizeActivityContributions(ac, ars) ==
    [i \in 1..Len(ac) |->
        IF /\ ac[i].area_id \in Range(ars)
           /\ ac[i].Pressure \in Range(PressureIDs)
           /\ Gt(ActivitySum(ac, ac[i].area_id, ac[i].Pressure), One)
        THEN [ac[i] EXCEPT !.value = Div(@, ActivitySum(ac, ac[i].area_id, ac[i].Pressure))]
        ELSE ac[i]]

\* "make sure pressure contributions don't exceed 100 %"
NormalizePressureContributions(pcs, ars) ==
    [i \in 1..Len(pcs) |->
        IF /\ pcs[i].area_id \in Range(ars)
           /\ pcs[i].State \in Range(StateIDs)
           /\ Gt(PressureSum(pcs, pcs[i].area_id, pcs[i].State), One)
        THEN [pcs[i] EXCEPT !.average = Div(@, PressureSum(pcs, pcs[i].area_id, pcs[i].State))]
        ELSE pcs[i]]

\* the iterations of the innermost loop of stage 1, in order: for each area, for
\* each pressure ID, the cases of that area and pressure
Step1Work(cs) ==
    Flatten(MapSeq(areas(cs), LAMBDA a :
      Flatten(MapSeq(PressureIDs, LAMBDA p :
        MapSeq(Indices(cs, LAMBDA c : c.area_id = a /\ c.pressure = p),
               LAMBDA i : [area |-> a, ID |-> p, row |-> i])))))

\* mutant of Step2Work: only the cases without a pressure are taken
Step2Work_WithoutPressure(cs) ==
    Flatten(MapSeq(areas(cs), LAMBDA a :
      Flatten(MapSeq(StateIDs, LAMBDA s :
        MapSeq(Indices(cs, LAMBDA c : c.area_id = a /\ c.state = s /\ c.pressure = 0),
               LAMBDA i : [area |-> a, ID |-> s, row |-> i])))))

\* the iterations of the innermost loop of stage 2: for each area, for each
\* state ID, the cases of that area and state
Step2Work(cs) ==
    Flatten(MapSeq(areas(cs), LAMBDA a :
      Flatten(MapSeq(StateIDs, LAMBDA s :
        MapSeq(Indices(cs, LAMBDA c : c.area_id = a /\ c.state = s),
               LAMBDA i : [area |-> a, ID |-> s, row |-> i])))))

\* relevant_pressures of the iteration for state s: the rows of every area
RelevantPressures(pcs, s) == SelectSeq(pcs, LAMBDA r : r.State = s)

\* the iterations of the innermost loop of stage 3: for each area, for each
\* state ID, the k-th row of relevant_pressures
Step3Work(pcs, cs) ==
    Flatten(MapSeq(areas(cs), LAMBDA a :
      Flatten(MapSeq(StateIDs, LAMBDA s :
        [k \in 1..Len(RelevantPressures(pcs, s)) |-> [area |-> a, ID |-> s, k |-> k]]))))

\* entry of build_changes: the level tables are created and both contribution
\* tables are normalized
BuildChangesStart ==
    /\ pc = "build_changes"
    /\ pressure_levels' = LevelTable(PressureIDs, areas(cases), One)
    /\ total_pressure_load_levels' = LevelTable(StateIDs, areas(cases), One)
    /\ total_pressure_load_reductions' = LevelTable(StateIDs, areas(cases), Zero)
    /\ activity_contributions' = NormalizeActivityContributions(activity_contributions, areas(cases))
    /\ pressure_contributions' = NormalizePressureContributions(pressure_contributions, areas(cases))
    /\ time_steps' \in 0..MaxTimeSteps
    /\ time_step' = 0
    /\ work' = Step1Work(cases)
    /\ pc' = IF time_steps' > 0 THEN "step1" ELSE "post"
    /\ UNCHANGED <<tables, cases, links, locals, error, data_thresholds>>

\* the rows of links with the key of case m
LinkRows(ls, m) == SelectSeq(ls, LAMBDA l : LinkKey(l) = LinkKey(m))

RECURSIVE ApplyMultipliers(_, _)
ApplyMultipliers(red, ovs) ==
    IF ovs = <<>> THEN red ELSE ApplyMultipliers(Mul(red, Head(ovs).Multiplier), Tail(ovs))

\* mutant of DivideActivityGroup: the table becomes the divided group
DivideActivityGroup_GroupOnly(ac, area, p, divisor) ==
    MapSeq(ActivityGroup(ac, area, p), LAMBDA r : [r EXCEPT !.value = Div(@, divisor)])

\* the dividing of the contribution values of one (area, pressure) group
DivideActivityGroup(ac, area, p, divisor) ==
    [i \in 1..Len(ac) |->
        IF ac[i].area_id = area /\ ac[i].Pressure = p
        THEN [ac[i] EXCEPT !.value = Div(@, divisor)] ELSE ac[i]]

\* the dividing of the contribution values of one (area, state) group
DividePressureGroup(pcs, area, s, divisor) ==
    [i \in 1..Len(pcs) |->
        IF pcs[i].area_id = area /\ pcs[i].State = s
        THEN [pcs[i] EXCEPT !.average = Div(@, divisor)] ELSE pcs[i]]

\* --- stage 1: activity contributions (pressure reductions)

\* relevant_overlaps of the iteration for pressure p
RelevantOverlaps(ovs, p) == SelectSeq(ovs, LAMBDA o : o.Pressure = p)

\* the link's reduction times coverage, implementation and the multiplier of
\* every relevant overlap row with the case's measure as overlapped and the
\* case's activity
Step1Reduction(m, row, rel) ==
    ApplyMultipliers(Mul(Mul(row.reduction, m.coverage), m.implementation),
                     SelectSeq(rel, LAMBDA o : o.Overlapped = m.measure /\ o.Activity = m.activity))

\* the contribution used for case m: the `contribution = 1` that activity 0
\* sets is overwritten by the table lookup that follows it unconditionally
Step1Contribution(m, ac, area) ==
    LET found == SelectSeq(ac, LAMBDA r : r.Activity = m.activity /\ r.Pressure = m.pressure
                                           /\ r.area_id = area)
    IN IF found = <<>> THEN Zero ELSE found[1].value

Step1Case ==
    /\ pc = "step1"
    /\ work # <<>>
    /\ LET w == Head(work)
           m == cases[w.row]
           row == LinkRows(links, m)
           rel == RelevantOverlaps(overlaps, w.ID)
       IN /\ relevant_overlaps' = rel
          /\ IF row = <<>>
             THEN /\ pc' = pc /\ error' = error /\ work' = Tail(work)
                  /\ UNCHANGED <<reduction, contribution, pressure_levels, activity_contributions>>
             ELSE IF Len(row) # 1
             THEN /\ pc' = "failed" /\ error' = "AssertionError" /\ work' = work
                  /\ UNCHANGED <<reduction, contribution, pressure_levels, activity_contributions>>
             ELSE LET red == Step1Reduction(m, row[1], rel)
                      con == Step1Contribution(m, activity_contributions, w.area)
                      factor == Sub(One, Mul(red, con))
                  IN /\ reduction' = red
                     /\ contribution' = con
                     /\ pressure_levels' = [pressure_levels EXCEPT ![<<w.ID, w.area>>] = Mul(@, factor)]
                     /\ activity_contributions' =
                            DivideActivityGroup(activity_contributions, w.area, w.ID, factor)
                     /\ pc' = pc /\ error' = error /\ work' = Tail(work)
    /\ UNCHANGED <<tables, time_steps, cases, links, pressure_contributions, total_pressure_load_levels,
                   total_pressure_load_reductions, data_thresholds, relevant_pressures, time_step>>

\* the loops of stage 1 are exhausted; relevant_overlaps keeps the value of the
\* last iteration of the pressure loop
EndStep1 ==
    /\ pc = "step1"
    /\ work = <<>>
    /\ relevant_overlaps' = IF areas(cases) = <<>> THEN relevant_overlaps
                            ELSE RelevantOverlaps(overlaps, PressureIDs[Len(PressureIDs)])
    /\ pc' = "step2"
    /\ work' = Step2Work(cases)
    /\ UNCHANGED <<tables, time_steps, cases, links, activity_contributions, pressure_contributions,
                   levels, reduction, contribution, relevant_pressures, time_step, error>>

\* --- stage 2: straight to state measures

\* as in stage 1, with relevant_overlaps left over from stage 1 and filtered by
\* the case's pressure as well
Step2Reduction(m, row, rel) ==
    ApplyMultipliers(Mul(Mul(row.reduction, m.coverage), m.implementation),
                     SelectSeq(rel, LAMBDA o : /\ o.Overlapped = m.measure
                                               /\ o.Activity = m.activity
                                               /\ o.Pressure = m.pressure))

Step2Case ==
    /\ pc = "step2"
    /\ work # <<>>
    /\ LET w == Head(work)
           m == cases[w.row]
           row == LinkRows(links, m)
       IN IF row = <<>>
          THEN UNCHANGED <<reduction, total_pressure_load_levels>>
          ELSE LET red == Step2Reduction(m, row[1], relevant_overlaps) IN
               /\ reduction' = red
               /\ total_pressure_load_levels' =
                      [total_pressure_load_levels EXCEPT ![<<w.ID, w.area>>] = Mul(@, Sub(One, red))]
    /\ work' = Tail(work)
    /\ UNCHANGED <<tables, time_steps, cases, links, activity_contributions, pressure_contributions,
                   pressure_levels, total_pressure_load_reductions, data_thresholds, contribution,
                   relevant_overlaps, relevant_pressures, pc, time_step, error>>

EndStep2 ==
    /\ pc = "step2"
    /\ work = <<>>
    /\ pc' = "step3"
    /\ work' = Step3Work(pressure_contributions, cases)
    /\ UNCHANGED <<tables, time_steps, cases, links, activity_contributions, pressure_contributions,
                   levels, locals, time_step, error>>

\* --- stage 3: pressure contributions

RelevantSubpressures(sps, s, p) ==
    SelectSeq(sps, LAMBDA sp : sp.State = s /\ sp.State_pressure = p)

RECURSIVE AddSubpressures(_, _, _, _)
AddSubpressures(red, sps, pl, area) ==
    IF sps = <<>> THEN red
    ELSE AddSubpressures(
             Add(red, Mul(Head(sps).Multiplier,
                          Sub(One, pl[<<Head(sps).Reduced_pressure, area>>]))),
             Tail(sps), pl, area)

\* mutant of Step3Reduction: the subpressures are left out
Step3Reduction_MainOnly(p, s, area, pl, sps) == Sub(One, pl[<<p.pressure, area>>])

\* the reduction of the main pressure plus the weighted reductions of its
\* subpressures
Step3Reduction(p, s, area, pl, sps) ==
    AddSubpressures(Sub(One, pl[<<p.pressure, area>>]),
                    RelevantSubpressures(sps, s, p.pressure), pl, area)

\* mutant of ReductionAllowed: the assertion is gone
ReductionAllowed_Always(red) == TRUE

\* `assert reduction <= 1`: the condition under which stage 3 goes on
ReductionAllowed(red) == Leq(red, One)

\* the pressure IDs that row p of stage 3 looks up in pressure_levels
Step3Lookups(p, s, sps) ==
    {p.pressure} \cup {sp.Reduced_pressure : sp \in Range(RelevantSubpressures(sps, s, p.pressure))}

Step3Row ==
    /\ pc = "step3"
    /\ work # <<>>
    /\ LET w == Head(work)
           rp == IF w.k = 1 THEN RelevantPressures(pressure_contributions, w.ID)
                 ELSE relevant_pressures
           p == rp[w.k]
       IN /\ relevant_pressures' = rp
          /\ IF ~(Step3Lookups(p, w.ID, subpressures) \subseteq Range(PressureIDs))
             THEN /\ pc' = "failed" /\ error' = "IndexError" /\ work' = work
                  /\ UNCHANGED <<reduction, contribution, total_pressure_load_levels,
                                 pressure_contributions>>
             ELSE LET red == Step3Reduction(p, w.ID, w.area, pressure_levels, subpressures)
                      con == p.average
                      factor == Sub(One, Mul(red, con))
                  IN /\ reduction' = red
                     /\ contribution' = con
                     /\ IF ~ReductionAllowed(red)
                        THEN /\ pc' = "failed" /\ error' = "AssertionError" /\ work' = work
                             /\ UNCHANGED <<total_pressure_load_levels, pressure_contributions>>
                        ELSE /\ total_pressure_load_levels' =
                                    [total_pressure_load_levels EXCEPT ![<<w.ID, w.area>>] = Mul(@, factor)]
                             /\ pressure_contributions' =
                                    DividePressureGroup(pressure_contributions, w.area, w.ID, factor)
                             /\ pc' = pc /\ error' = error /\ work' = Tail(work)
    /\ UNCHANGED <<tables, time_steps, cases, links, activity_contributions, pressure_levels,
                   total_pressure_load_reductions, data_thresholds, relevant_overlaps, time_step>>

\* mutant of EndStep3: the loop runs once more than time_steps
EndStep3_OnceMore ==
    /\ pc = "step3"
    /\ work = <<>>
    /\ time_step' = time_step + 1
    /\ pc' = IF time_step < time_steps THEN "step1" ELSE "post"
    /\ work' = Step1Work(cases)
    /\ UNCHANGED <<tables, time_steps, cases, links, activity_contributions, pressure_contributions,
                   levels, locals, error>>

\* end of one iteration of the simulation loop
EndStep3 ==
    /\ pc = "step3"
    /\ work = <<>>
    /\ time_step' = time_step + 1
    /\ pc' = IF time_step + 1 < time_steps THEN "step1" ELSE "post"
    /\ work' = Step1Work(cases)
    /\ UNCHANGED <<tables, time_steps, cases, links, activity_contributions, pressure_contributions,
                   levels, locals, error>>

\* "GES thresholds": one table per threshold column, with the value of the
\* first row of the state and area, nan where the table has no such row
ThresholdTables(th, ars) ==
    [col \in ThresholdCols |->
        [k \in Range(StateIDs) \X Range(ars) |->
            LET row == SelectSeq(th, LAMBDA r : r.State = k[1] /\ r.area_id = k[2])
            IN IF row = <<>> THEN NaN ELSE row[1][col]]]

\* after the loop: the total reduction observed in the total pressure loads,
\* and the threshold tables, which replace the input table in data
Finish ==
    /\ pc = "post"
    /\ total_pressure_load_reductions' =
           [k \in DOMAIN total_pressure_load_levels |-> Sub(One, total_pressure_load_levels[k])]
    /\ data_thresholds' = ThresholdTables(thresholds, areas(cases))
    /\ pc' = "done"
    /\ UNCHANGED <<tables, time_steps, cases, links, activity_contributions, pressure_contributions,
                   pressure_levels, total_pressure_load_levels, locals, time_step, work, error>>

Next ==
    \/ BuildLinks
    \/ BuildCases
    \/ BuildChangesStart
    \/ Step1Case
    \/ EndStep1
    \/ Step2Case
    \/ EndStep2
    \/ Step3Row
    \/ EndStep3
    \/ Finish

Spec == Init /\ [][Next]_vars

\* the replicate has ended: build_changes has returned, or an exception was raised
Ended == pc \in {"done", "failed"}

\* the interpreter runs the replicate on until it ends.  This is WF_vars(Next)
\* with ENABLED <<Next>>_vars written out: a step of Next is possible exactly
\* when the replicate has not ended
RunsOn == []<>Ended \/ []<><<Next>>_vars

SpecFair == Spec /\ RunsOn

\* ------------------------------------------- build_cases on its own inputs

\* the rows of the raw case tables: both measures, a row with 0 in every
\* column, a row without 0 and a row with 0 in one column, in either area and
\* with different coverage and implementation
CaseRowChoices ==
    { CaseRow(m, t[1], t[2], t[3], o[1], o[2], o[3]) :
          m \in {1, 2},
          t \in {<<0, 0, 0>>, <<1, 1, 1>>, <<1, 2, 0>>},
          o \in {<<1, One, Half>>, <<1, Half, One>>, <<2, One, One>>} }

\* the raw case tables of at most MaxCaseRows rows
CaseInputs == UNION {[1..n -> CaseRowChoices] : n \in 0..MaxCaseRows}

\* the data before build_links, with any raw case table and no other table
\* than measure_effects
InitCases ==
    /\ measure_effects \in EffectTables
    /\ cases \in CaseInputs
    /\ activity_contributions = <<>>
    /\ pressure_contributions = <<>>
    /\ overlaps = <<>>
    /\ subpressures = <<>>
    /\ survey = <<>>
    /\ thresholds = <<>>
    /\ data_thresholds = InputThresholds
    /\ time_steps = 0
    /\ links = <<>>
    /\ pressure_levels = <<>>
    /\ total_pressure_load_levels = <<>>
    /\ total_pressure_load_reductions = <<>>
    /\ pc = "build_links"
    /\ time_step = 0
    /\ work = <<>>
    /\ reduction = Zero
    /\ contribution = Zero
    /\ relevant_overlaps = <<>>
    /\ relevant_pressures = <<>>
    /\ error = "none"
    /\ InReplicate

\* build_links followed by build_cases
NextCases ==
    \/ BuildLinks
    \/ BuildCases

SpecCases == InitCases /\ [][NextCases]_vars

\* ------------------------------------------------------------------ claims

\* a case of stage 1 is about to be processed
Stage1Acts == pc = "step1" /\ work # <<>>

\* a row of stage 3 is about to be processed
Stage3Acts == pc = "step3" /\ work # <<>>

\* the case that the next iteration of stage 1 or 2 processes
CurrentCase == cases[Head(work).row]

\* the pressure contribution row that the next iteration of stage 3 processes
CurrentPressureRow == RelevantPressures(pressure_contributions, Head(work).ID)[Head(work).k]

\* the pre-step of build_changes has just run and no case has been applied
AfterPreStep ==
    \/ pc = "step1" /\ time_step = 0 /\ work = Step1Work(cases)
    \/ pc = "post" /\ time_steps = 0

\* some two rows of measure_effects share their key
HasDuplicateKey ==
    \E i, j \in 1..Len(measure_effects) :
        i # j /\ LinkKey(measure_effects[i]) = LinkKey(measure_effects[j])

\* C1: every pressure level and total pressure load level starts at 1, stays
\* within [0,1] after every update and never increases from one update to the
\* next.
C1_LevelsStayInUnitAndNeverIncrease ==
    [][ /\ pc = "build_changes" =>
              /\ \A k \in DOMAIN pressure_levels' : pressure_levels'[k] = One
              /\ \A k \in DOMAIN total_pressure_load_levels' : total_pressure_load_levels'[k] = One
        /\ pc \in {"step1", "step2", "step3"} =>
              /\ \A k \in DOMAIN pressure_levels :
                    /\ InUnit(pressure_levels'[k])
                    /\ Leq(pressure_levels'[k], pressure_levels[k])
              /\ \A k \in DOMAIN total_pressure_load_levels :
                    /\ InUnit(total_pressure_load_levels'[k])
                    /\ Leq(total_pressure_load_levels'[k], total_pressure_load_levels[k])
      ]_vars

\* C2: when the activity contributions of a (pressure, area) group sum to at
\* most 1 before a case of stage 1 is applied, they sum to at most 1 after it.
C2_ActivitySumStaysAtMostOne ==
    [][ Stage1Acts =>
            \A a \in Range(areas(cases)) : \A p \in Range(PressureIDs) :
                Leq(ActivitySum(activity_contributions, a, p), One)
                    => Leq(ActivitySum(activity_contributions', a, p), One)
      ]_vars

C4_Scenario ==
    /\ pc = "done" /\ time_steps = 1
    /\ Len(links) = 1 /\ LinkKey(links[1]) = <<1, 0, 1, 0>> /\ links[1].reduction = Half
    /\ Len(cases) = 1 /\ CaseKey(cases[1]) = <<1, 0, 1, 0, 1>>
    /\ cases[1].coverage = One /\ cases[1].implementation = One
    /\ \A o \in Range(overlaps) : o.Overlapped # 1

\* C4: in stage 1 a case with activity 0 uses contribution 1 whether or not the
\* activity contribution table has a row for activity 0, so that in the
\* scenario the pressure level is 0.5 after one time step; a case with another
\* activity and no row uses contribution 0.
C4_DirectCaseUsesContributionOne ==
    [][ /\ (Stage1Acts /\ pc' = "step1" /\ LinkRows(links, CurrentCase) # <<>>) =>
              LET m == CurrentCase
                  listed == \E r \in Range(activity_contributions) :
                                /\ r.Activity = m.activity
                                /\ r.Pressure = m.pressure
                                /\ r.area_id = Head(work).area
              IN /\ m.activity = 0 => contribution' = One
                 /\ (m.activity # 0 /\ ~listed) => contribution' = Zero
        /\ C4_Scenario' => pressure_levels'[<<1, 1>>] = Half
      ]_vars

\* the scenario of C5: measures 1 and 2 each reduce pressure 1 by 0.5 through
\* the same activity a, both are cases of area 1 with full coverage and
\* implementation, measure 1 overlaps measure 2 on pressure 1 with multiplier
\* 0.5, one time step, run to the end
C5_Scenario ==
    /\ pc = "done" /\ time_steps = 1
    /\ \E a \in {0, 1} :
          /\ {LinkKey(l) : l \in Range(links)} = {<<1, a, 1, 0>>, <<2, a, 1, 0>>}
          /\ {CaseKey(c) : c \in Range(cases)} = {<<1, a, 1, 0, 1>>, <<2, a, 1, 0, 1>>}
          /\ overlaps = <<OverlapRow(1, 2, 1, a, Half)>>
    /\ Len(links) = 2 /\ Len(cases) = 2
    /\ \A l \in Range(links) : l.reduction = Half
    /\ \A c \in Range(cases) : c.coverage = One /\ c.implementation = One

\* C5: in the overlap scenario the pressure level after one time step is
\* (1 - 0.5) x (1 - 0.25) = 0.375, whatever the order of the two cases.
C5_OverlapScenarioLevel ==
    C5_Scenario => pressure_levels[<<1, 1>>] = <<3, 8>>

\* the effective reduction of C6 for the row (state s, pressure p) in an area
C6_EffectiveReduction(p, s, area) ==
    LET rows == SelectSeq(subpressures, LAMBDA sp : sp.State = s /\ sp.State_pressure = p)
        F[i \in 0..Len(rows)] ==
            IF i = 0 THEN Sub(One, pressure_levels[<<p, area>>])
            ELSE Add(F[i - 1], Mul(rows[i].Multiplier,
                                   Sub(One, pressure_levels[<<rows[i].Reduced_pressure, area>>])))
    IN F[Len(rows)]

\* C6: the reduction stage 3 applies for a pressure contribution row (S, P) in
\* an area is (1 - level of P) plus Multiplier x (1 - level of the reduced
\* pressure) for every subpressure row of (S, P); with P untouched, Q fully
\* eliminated and multiplier 0.5 it is 0.5; the total pressure load level of S
\* is multiplied by (1 - reduction x contribution).
C6_Stage3Reduction ==
    [][ (Stage3Acts /\ pc' = "step3") =>
            LET w == Head(work)
                key == <<w.ID, w.area>>
                eff == C6_EffectiveReduction(CurrentPressureRow.pressure, w.ID, w.area)
            IN /\ reduction' = eff
               /\ total_pressure_load_levels'[key] =
                      Mul(total_pressure_load_levels[key], Sub(One, Mul(eff, contribution')))
               /\ ( /\ CurrentPressureRow.pressure = 1
                    /\ pressure_levels[<<1, w.area>>] = One
                    /\ pressure_levels[<<2, w.area>>] = Zero
                    /\ subpressures = <<SubRow(w.ID, 1, 2, Half)>> ) => reduction' = Half
      ]_vars

\* C6 witness: stage 3 has processed the row (S, P) of area 1 with P untouched,
\* Q eliminated and the subpressure multiplier 0.5
C6_Witness ==
    /\ pc = "step3"
    /\ subpressures = <<SubRow(1, 1, 2, Half)>>
    /\ <<1, 1>> \in DOMAIN pressure_levels
    /\ pressure_levels[<<1, 1>>] = One
    /\ pressure_levels[<<2, 1>>] = Zero
    /\ relevant_pressures # <<>>
    /\ Len(work) = Len(Step3Work(pressure_contributions, cases)) - 1
    /\ reduction = Half
    /\ contribution = Half
    /\ total_pressure_load_levels[<<1, 1>>] = <<3, 4>>

\* C7: when the combined reduction of a row of stage 3 exceeds 1, build_changes
\* ends with an assertion failure, the total pressure load levels are not
\* updated and nothing runs after the failure; a row that stage 3 does apply
\* has a combined reduction of at most 1.
C7_AssertionGuardsStage3 ==
    [][ /\ pc # "failed"
        /\ Stage3Acts =>
              LET w == Head(work)
                  eff == C6_EffectiveReduction(CurrentPressureRow.pressure, w.ID, w.area)
              IN /\ Gt(eff, One) =>
                        /\ pc' = "failed" /\ error' = "AssertionError"
                        /\ UNCHANGED <<total_pressure_load_levels, total_pressure_load_reductions,
                                       pressure_contributions>>
                 /\ pc' = "step3" => Leq(eff, One) /\ Leq(reduction', One)
      ]_vars

\* C7 witness: stage 3 has failed on a combined reduction above 1
C7_Witness ==
    /\ pc = "failed" /\ error = "AssertionError"
    /\ Gt(reduction, One)
    /\ \A k \in DOMAIN total_pressure_load_levels : total_pressure_load_levels[k] = One

\* C8: with two rows of measure_effects sharing a key build_links fails on its
\* assertion and returns no links; the links it returns have pairwise different
\* keys, so no case matches more than one link.
C8_LinkKeysUnique ==
    /\ (pc # "build_links" /\ HasDuplicateKey) =>
          pc = "failed" /\ error = "AssertionError" /\ links = <<>>
    /\ \A i, j \in 1..Len(links) : LinkKey(links[i]) = LinkKey(links[j]) => i = j
    /\ \A c \in Range(cases) : Len(LinkRows(links, c)) <= 1

\* C8 witness: build_links has failed on a table with a duplicate key
C8_Witness ==
    /\ pc = "failed" /\ error = "AssertionError" /\ links = <<>>
    /\ HasDuplicateKey

\* C9: missing data is a zero effect and never an error: build_links does not
\* fail on a table without duplicate keys (a link without a distribution
\* included); a case without a link, or with a non-zero activity without an
\* activity contribution row, leaves the pressure levels and the activity
\* contributions unchanged; without a matching overlap row the reduction is
\* the link's reduction x coverage x implementation.
C9_MissingDataIsZeroEffect ==
    [][ /\ (pc = "build_links" /\ ~HasDuplicateKey) => pc' # "failed"
        /\ Stage1Acts =>
              LET m == CurrentCase
                  row == SelectSeq(links, LAMBDA l : LinkKey(l) = LinkKey(m))
                  listed == \E r \in Range(activity_contributions) :
                                /\ r.Activity = m.activity
                                /\ r.Pressure = m.pressure
                                /\ r.area_id = Head(work).area
                  overlapped == \E o \in Range(overlaps) :
                                    /\ o.Overlapped = m.measure
                                    /\ o.Pressure = m.pressure
                                    /\ o.Activity = m.activity
              IN /\ (row = <<>> \/ (m.activity # 0 /\ ~listed)) =>
                        /\ pc' = "step1"
                        /\ UNCHANGED <<pressure_levels, activity_contributions>>
                 /\ (row # <<>> /\ ~overlapped) =>
                        reduction' = Mul(Mul(row[1].reduction, m.coverage), m.implementation)
      ]_vars

\* C10: get_pick returns the undefined value for the undefined distribution
\* that get_prob_dist returns, so build_links completes and the reduction of
\* such a link is undefined.
C10_UndefinedDistributionGivesUndefinedPick ==
    [][ (pc = "build_links" /\ ~HasDuplicateKey) =>
            /\ pc' = "build_cases"
            /\ Len(links') = Len(measure_effects)
            /\ \A i \in 1..Len(measure_effects) :
                  measure_effects[i].probability.kind = "nan" => IsNaN(links'[i].reduction)
      ]_vars

\* ------------------------------------- get_prob_dist on its own inputs

\* the survey block of one link before its distribution is calculated
InitSurvey ==
    /\ survey \in SurveyInputs
    /\ measure_effects = <<>>
    /\ cases = <<>>
    /\ activity_contributions = <<>>
    /\ pressure_contributions = <<>>
    /\ overlaps = <<>>
    /\ subpressures = <<>>
    /\ thresholds = <<>>
    /\ data_thresholds = InputThresholds
    /\ time_steps = 0
    /\ links = <<>>
    /\ pressure_levels = <<>>
    /\ total_pressure_load_levels = <<>>
    /\ total_pressure_load_reductions = <<>>
    /\ pc = "survey"
    /\ time_step = 0
    /\ work = <<>>
    /\ reduction = Zero
    /\ contribution = Zero
    /\ relevant_overlaps = <<>>
    /\ relevant_pressures = <<>>
    /\ error = "none"
    /\ InReplicate

\* process_measure_survey_data: the 'probability' cell of the link of the
\* block is what get_prob_dist returns for the answers
ProcessSurvey ==
    /\ pc = "survey"
    /\ \E d \in get_prob_dist(survey) :
          measure_effects' = <<EffectRow(1, 1, 1, 0, d)>>
    /\ pc' = "build_links"
    /\ UNCHANGED <<overlaps, subpressures, survey, thresholds, driver, time_steps, cases, links,
                   activity_contributions, pressure_contributions, levels, locals,
                   time_step, work, error>>

\* the distribution of a link is calculated, then build_links draws from it
NextSurvey ==
    \/ ProcessSurvey
    \/ BuildLinks

SpecSurvey == InitSurvey /\ [][NextSurvey]_vars

\* ------------------------------------------- two runs with the same seed

\* the states of numpy's global generator (np.random.seed, np.random.choice)
Modulus == 4

\* np.random.seed(seed): the state of the global generator is a function of
\* the seed
SeedState(seed) == seed % Modulus

\* the state of the global generator after one draw
NextState(g) == (3 * g + 1) % Modulus

\* the uniform value in [0, 1) that the global generator draws in state g
Uniform(g) == Norm(g, Modulus)

\* the sum of the weights p of the grid points js (the other weights of
\* the array are 0)
RECURSIVE Cumulative(_, _)
Cumulative(p, js) ==
    IF js = {} THEN Zero
    ELSE LET j == CHOOSE k \in js : TRUE IN Add(p[j], Cumulative(p, js \ {j}))

\* np.random.choice(a, p=dist) with the global generator in state g: the
\* first grid point whose cumulative weight exceeds the uniform value
choice(dist, g) ==
    LET idx == DOMAIN dist.p
        cdf(k) == Cumulative(dist.p, {j \in idx : j <= k})
        i == CHOOSE k \in idx : /\ Gt(cdf(k), Uniform(g))
                                /\ \A j \in idx : j < k => ~Gt(cdf(j), Uniform(g))
    IN Norm(i, dist.size - 1)

\* get_pick with the global generator in state g: the one outcome of the
\* call
SeededPick(dist, g) ==
    IF \E o \in get_pick(dist) : o.raised # "none" \/ dist.kind = "None"
    THEN CHOOSE o \in get_pick(dist) : TRUE
    ELSE [raised |-> "none", pick |-> choice(dist, g)]

\* the survey blocks of the two runs: no expert, a missing answer, one value
\* for all three questions, a spread, two experts
SeedSurveys ==
    { <<>>,
      <<Expert(NaN, <<50, 1>>, <<50, 1>>, 1)>>,
      <<Expert(<<50, 1>>, <<50, 1>>, <<50, 1>>, 1)>>,
      <<Expert(<<50, 1>>, <<0, 1>>, <<100, 1>>, 1)>>,
      <<Expert(<<50, 1>>, <<50, 1>>, <<50, 1>>, 1), Expert(<<100, 1>>, <<100, 1>>, <<100, 1>>, 1)>>,
      <<Expert(<<50, 1>>, <<50, 1>>, <<50, 1>>, 1), Expert(<<100, 1>>, <<50, 1>>, <<150, 1>>, 2)>> }

\* the two runs
Runs == {1, 2}

\* a run of the program: where it is, the state of its global generator,
\* the distribution of the link and the reduction drawn from it
RunState(at, g, d, o) == [pc |-> at, generator |-> g, dist |-> d, outcome |-> o]

\* the outcome of a run that has not drawn yet
NoOutcome == [raised |-> "none", pick |-> NaN]

\* two processes start on the same survey block and the same config; the
\* global generator of each is initialized from the entropy of the system
InitSeed ==
    /\ survey \in SeedSurveys
    /\ config \in [use_random_seed : BOOLEAN, random_seed : {7, 42}]
    /\ runs \in [Runs -> {RunState("seed", g, NoneDist, NoOutcome) : g \in 0..(Modulus - 1)}]
    /\ sheet = [header |-> <<>>, rows |-> 0]
    /\ run_pc = "simulate"
    /\ load_error = "none"
    /\ sim_pc = [i \in {0} |-> "try"]
    /\ progress = [current |-> 0, total |-> 1]
    /\ lock = Free
    /\ got = [i \in {0} |-> 0]
    /\ log = [i \in {0} |-> <<"sim">>]
    /\ heap = [x \in {Input} |-> Tables(<<>>, <<>>)]
    /\ data = [i \in {0} |-> Input]
    /\ measure_effects = <<>>
    /\ cases = <<>>
    /\ activity_contributions = <<>>
    /\ pressure_contributions = <<>>
    /\ overlaps = <<>>
    /\ subpressures = <<>>
    /\ thresholds = <<>>
    /\ data_thresholds = InputThresholds
    /\ time_steps = 0
    /\ links = <<>>
    /\ pressure_levels = <<>>
    /\ total_pressure_load_levels = <<>>
    /\ total_pressure_load_reductions = <<>>
    /\ pc = "seed"
    /\ time_step = 0
    /\ work = <<>>
    /\ reduction = Zero
    /\ contribution = Zero
    /\ relevant_overlaps = <<>>
    /\ relevant_pressures = <<>>
    /\ error = "none"

\* everything but the two runs
NotRuns ==
    <<measure_effects, cases, links, activity_contributions, pressure_contributions,
      overlaps, subpressures, survey, thresholds, time_steps, levels, pc, time_step, work,
      locals, error, config, sheet, run_pc, load_error, sim_pc, progress, lock, got, log,
      heap, data>>

\* run(): if config['use_random_seed']: np.random.seed(config['random_seed'])
SetSeed(r) ==
    /\ pc = "seed"
    /\ runs[r].pc = "seed"
    /\ runs' = [runs EXCEPT ![r].pc = "dist",
                            ![r].generator = IF config.use_random_seed
                                             THEN SeedState(config.random_seed)
                                             ELSE @]
    /\ UNCHANGED NotRuns

\* process_measure_survey_data: get_prob_dist for the block; each pert_dist
\* draws from np.random.default_rng(), a new generator initialized from the
\* entropy of the system, and the global generator is not touched
SynthesizeDist(r) ==
    /\ pc = "seed"
    /\ runs[r].pc = "dist"
    /\ \E d \in get_prob_dist(survey) :
          runs' = [runs EXCEPT ![r].pc = "pick", ![r].dist = d]
    /\ UNCHANGED NotRuns

\* build_links: get_pick draws the reduction of the link with the global
\* generator
Pick(r) ==
    /\ pc = "seed"
    /\ runs[r].pc = "pick"
    /\ runs' = [runs EXCEPT ![r].pc = "done",
                            ![r].outcome = SeededPick(runs[r].dist, runs[r].generator),
                            ![r].generator = NextState(@)]
    /\ UNCHANGED NotRuns

NextSeed ==
    \/ \E r \in Runs : SetSeed(r)
    \/ \E r \in Runs : SynthesizeDist(r)
    \/ \E r \in Runs : Pick(r)

SpecSeed == InitSeed /\ [][NextSeed]_vars

\* --------------------------------------------------- run() and run_sim()

\* the replicates of the run: range(config['simulations'])
Sims == 0..(config.simulations - 1)

\* run_sim has returned
Returned == {"returned0", "returned1"}

\* mutant of fail_with_message: it returns to its caller
fail_with_message_Returns(kwargs) == "returns"

\* fail_with_message(m, e): called with a keyword it does not have it
\* raises TypeError; else it prints the traceback and the message to
\* stdout and calls exit()
fail_with_message(kwargs) ==
    IF kwargs \subseteq {"m", "e"} THEN "SystemExit" ELSE "TypeError"

\* process_pressure_survey_data: every expert of the sheet must have as
\* many answers as the sheet has questions
process_pressure_survey_data(sh) ==
    IF \E expert \in DOMAIN sh.answers : sh.answers[expert] # sh.questions
    THEN "Exception"
    ELSE "ok"

\* build_input: the pressure survey sheet is processed while the input is
\* loaded and its exception is not handled; other is a failure of any
\* other reader
build_input(sh, other) ==
    IF other \/ process_pressure_survey_data(sh) = "Exception"
    THEN "Exception"
    ELSE "ok"

\* the survey sheets: questions, and the number of answers of every expert
Sheets ==
    [questions : 1..2, answers : UNION {[1..n -> 1..2] : n \in 1..MaxExperts}]

\* the development scenario table (data['development_scenarios']): the
\* multiplier of the scenario for activity 1
DevelopmentScenarios == <<[Activity |-> 1, multiplier |-> <<3, 2>>]>>

\* build_scenario: every value is multiplied by the multiplier of its
\* activity (1 without a row), then by 1 + the new sum - the old sum of its
\* (pressure, area) group
build_scenario(act_to_press, dev_scen) ==
    LET get_scenario(activity_id) ==
            LET multiplier == SelectSeq(dev_scen, LAMBDA r : r.Activity = activity_id)
            IN IF multiplier = <<>> THEN One ELSE multiplier[1].multiplier
        scaled == [i \in 1..Len(act_to_press) |->
                      [act_to_press[i] EXCEPT !.value = Mul(@, get_scenario(act_to_press[i].Activity))]]
        normalize_factor(pressure_id, area) ==
            Sub(Add(One, ActivitySum(scaled, area, pressure_id)),
                ActivitySum(act_to_press, area, pressure_id))
    IN [i \in 1..Len(scaled) |->
           [scaled[i] EXCEPT !.value = Mul(@, normalize_factor(scaled[i].Pressure, scaled[i].area_id))]]

\* the areas of the cases of a replicate
ReplicateAreas == <<1, 2>>

\* what a replicate does to the tables of the object it works on: the
\* scenario, the normalization on entry of build_changes, and the division
\* of the groups of pressure 1 and state 1 of area 1 in the loop
InPlaceChanges(d, use_scenario, divisor) ==
    LET ac == IF use_scenario
              THEN build_scenario(d.activity_contributions, DevelopmentScenarios)
              ELSE d.activity_contributions
    IN Tables(DivideActivityGroup(NormalizeActivityContributions(ac, ReplicateAreas),
                                  1, 1, divisor),
              DividePressureGroup(NormalizePressureContributions(d.pressure_contributions,
                                                                 ReplicateAreas),
                                  1, 1, divisor))

\* the heap with a new object of value v
Allocate(h, new, v) == [x \in DOMAIN h \cup {new} |-> IF x = new THEN v ELSE h[x]]

\* the heap without the objects of gone, which nothing refers to any more
Drop(h, gone) == [x \in DOMAIN h \ gone |-> h[x]]

\* mutant of deepcopy: the object itself is returned
deepcopy_SameObject(h, obj, new) == [ref |-> obj, heap |-> h]

\* copy.deepcopy: a new object with the values of obj
deepcopy(h, obj, new) == [ref |-> new, heap |-> Allocate(h, new, h[obj])]

\* the contribution tables that build_input returns
InputData ==
    { Tables(<<ActRow(1, 1, 1, One), ActRow(2, 1, 1, Half), ActRow(1, 1, 2, One),
               ActRow(2, 1, 2, One)>>,
             <<PressRow(1, 1, 1, One), PressRow(1, 2, 1, Half), PressRow(1, 1, 2, One),
               PressRow(1, 2, 2, One)>>) }

\* run() before build_input, with config loaded
InitRun ==
    /\ config \in [simulations : 1..MaxSims, use_parallel_processing : BOOLEAN,
                   skip_sim : BOOLEAN, use_scenario : BOOLEAN]
    /\ sheet \in Sheets
    /\ run_pc = "load"
    /\ load_error = "none"
    /\ sim_pc = [i \in Sims |-> "waiting"]
    /\ progress = [current |-> 0, total |-> 0]
    /\ lock = Free
    /\ got = [i \in Sims |-> 0]
    /\ log = [i \in Sims |-> <<>>]
    /\ heap \in [{Input} -> InputData]
    /\ data = [i \in Sims |-> Input]
    /\ runs = <<>>
    /\ measure_effects = <<>>
    /\ cases = <<>>
    /\ activity_contributions = <<>>
    /\ pressure_contributions = <<>>
    /\ overlaps = <<>>
    /\ subpressures = <<>>
    /\ survey = <<>>
    /\ thresholds = <<>>
    /\ data_thresholds = InputThresholds
    /\ time_steps = 0
    /\ links = <<>>
    /\ pressure_levels = <<>>
    /\ total_pressure_load_levels = <<>>
    /\ total_pressure_load_reductions = <<>>
    /\ pc = "run"
    /\ time_step = 0
    /\ work = <<>>
    /\ reduction = Zero
    /\ contribution = Zero
    /\ relevant_overlaps = <<>>
    /\ relevant_pressures = <<>>
    /\ error = "none"

\* the variables of the engine, which the replicates of run() keep to
\* themselves
engine ==
    <<measure_effects, cases, links, activity_contributions, pressure_contributions,
      overlaps, subpressures, survey, thresholds, time_steps, levels, pc, time_step, work,
      locals, error, runs>>

\* run(): input_data = som_app.build_input(config), and on an exception
\* fail_with_message(message, e)
LoadInput ==
    /\ run_pc = "load"
    /\ \E other \in BOOLEAN :
          IF build_input(sheet, other) = "Exception"
          THEN /\ load_error' = "Exception"
               /\ run_pc' = CASE fail_with_message({}) = "SystemExit" -> "exited"
                              [] fail_with_message({}) = "TypeError" -> "raised"
                              [] OTHER -> "loaded"
          ELSE /\ run_pc' = "loaded"
               /\ UNCHANGED load_error
    /\ UNCHANGED <<config, sheet, sim_pc, progress, lock, got, log, engine, heap, data>>

\* run(): if not skip_sim, the manager's namespace and lock are made
CreateProgress ==
    /\ run_pc = "loaded"
    /\ IF config.skip_sim
       THEN /\ run_pc' = "results"
            /\ UNCHANGED progress
       ELSE /\ run_pc' = "simulate"
            /\ progress' = [current |-> 0, total |-> config.simulations]
    /\ UNCHANGED <<config, sheet, load_error, sim_pc, lock, got, log, engine, heap, data>>

\* run_sim is called: by the for loop after the call before it has
\* returned, or by a worker of the pool (a pool of min(cpu_count - 2,
\* simulations) workers hands out the jobs one by one as long as there
\* are at most four jobs for each worker); it opens its log and prints its id
StartSim(i) ==
    /\ run_pc = "simulate"
    /\ sim_pc[i] = "waiting"
    /\ config.use_parallel_processing \/ \A j \in 0..(i - 1) : sim_pc[j] \in Returned
    /\ sim_pc' = [sim_pc EXCEPT ![i] = "try"]
    /\ log' = [log EXCEPT ![i] = <<"sim">>]
    /\ IF config.use_parallel_processing
       THEN /\ heap' = Allocate(heap, Job(i), heap[Input])
            /\ data' = [data EXCEPT ![i] = Job(i)]
       ELSE /\ UNCHANGED <<heap, data>>
    /\ UNCHANGED <<config, sheet, run_pc, load_error, progress, lock, got, engine>>

\* the try block of run_sim begins: copy.deepcopy(input_data)
CopyInput(i) ==
    /\ sim_pc[i] = "try"
    /\ LET c == deepcopy(heap, data[i], Copy(i))
       IN  /\ heap' = c.heap
           /\ data' = [data EXCEPT ![i] = c.ref]
    /\ sim_pc' = [sim_pc EXCEPT ![i] = "engine"]
    /\ UNCHANGED <<config, sheet, run_pc, load_error, progress, lock, got, log, engine>>

\* the try block of run_sim from build_links to the export: it is done, or
\* raises before or after the tables of the replicate were changed; divisor
\* is the 1 - reduction x contribution of the replicate's draw
RunEngine(i) ==
    /\ sim_pc[i] = "engine"
    /\ \E raises, changed \in BOOLEAN, divisor \in {Half, One} :
          /\ ~raises => changed
          /\ sim_pc' = [sim_pc EXCEPT ![i] = IF raises THEN "except" ELSE "lock"]
          /\ heap' = IF changed
                     THEN [heap EXCEPT ![data[i]] = InPlaceChanges(@, config.use_scenario, divisor)]
                     ELSE heap
    /\ UNCHANGED <<config, sheet, run_pc, load_error, progress, lock, got, log, data, engine>>

\* mutant of Acquire: the replicate does not wait for the lock
Acquire_NoWait(i) ==
    /\ sim_pc[i] = "lock"
    /\ lock' = i
    /\ sim_pc' = [sim_pc EXCEPT ![i] = "get"]
    /\ UNCHANGED <<config, sheet, run_pc, load_error, progress, got, log, engine, heap, data>>

\* with lock: the replicate waits until the lock is free and takes it
Acquire(i) ==
    /\ sim_pc[i] = "lock"
    /\ lock = Free
    /\ lock' = i
    /\ sim_pc' = [sim_pc EXCEPT ![i] = "get"]
    /\ UNCHANGED <<config, sheet, run_pc, load_error, progress, got, log, engine, heap, data>>

\* progress.current += 1, first half: the proxy reads the attribute
GetCurrent(i) ==
    /\ sim_pc[i] = "get"
    /\ got' = [got EXCEPT ![i] = progress.current]
    /\ sim_pc' = [sim_pc EXCEPT ![i] = "set"]
    /\ UNCHANGED <<config, sheet, run_pc, load_error, progress, lock, log, engine, heap, data>>

\* progress.current += 1, second half: the proxy writes the attribute
SetCurrent(i) ==
    /\ sim_pc[i] = "set"
    /\ progress' = [progress EXCEPT !.current = got[i] + 1]
    /\ sim_pc' = [sim_pc EXCEPT ![i] = "display"]
    /\ UNCHANGED <<config, sheet, run_pc, load_error, lock, got, log, engine, heap, data>>

\* display_progress, the end of the with block, log.close() and return 1;
\* the objects only run_sim refers to go with its locals
Release(i) ==
    /\ sim_pc[i] = "display"
    /\ lock' = Free
    /\ sim_pc' = [sim_pc EXCEPT ![i] = "returned1"]
    /\ heap' = Drop(heap, {Job(i), Copy(i)})
    /\ UNCHANGED <<config, sheet, run_pc, load_error, progress, got, log, engine, data>>

\* except Exception as e: fail_with_message(message, e, file=log,
\* do_not_exit=True), log.close(), return 0. An exception of the call
\* leaves run_sim; exit() ends the process the replicate runs in, which is
\* the process of run() without the pool
Handler(i) ==
    /\ sim_pc[i] = "except"
    /\ LET r == fail_with_message({"file", "do_not_exit"})
       IN  /\ sim_pc' = [sim_pc EXCEPT ![i] = CASE r = "TypeError" -> "raised"
                                                [] r = "SystemExit" -> "exited"
                                                [] OTHER -> "returned0"]
           /\ run_pc' = IF r = "SystemExit" /\ ~config.use_parallel_processing
                        THEN "exited"
                        ELSE run_pc
    /\ heap' = Drop(heap, {Job(i), Copy(i)})
    /\ UNCHANGED <<config, sheet, load_error, progress, lock, got, log, engine, data>>

\* the exception of a replicate reaches run(): out of the for loop from the
\* call that raised, out of pool.starmap once every job has ended
RunRaises ==
    /\ run_pc = "simulate"
    /\ \E i \in Sims : sim_pc[i] = "raised"
    /\ config.use_parallel_processing => \A i \in Sims : sim_pc[i] \in Returned \cup {"raised"}
    /\ run_pc' = "raised"
    /\ UNCHANGED <<config, sheet, load_error, sim_pc, progress, lock, got, log, engine, heap, data>>

\* every call of run_sim has returned: display_progress, and run() goes on
\* to the results
FinishSimulations ==
    /\ run_pc = "simulate"
    /\ \A i \in Sims : sim_pc[i] \in Returned
    /\ run_pc' = "results"
    /\ UNCHANGED <<config, sheet, load_error, sim_pc, progress, lock, got, log, engine, heap, data>>

\* run(): the results are processed, and on an exception
\* fail_with_message(message, e)
ProcessResults ==
    /\ run_pc = "results"
    /\ \E raises \in BOOLEAN :
          run_pc' = IF ~raises THEN "ended"
                    ELSE CASE fail_with_message({}) = "SystemExit" -> "exited"
                           [] fail_with_message({}) = "TypeError" -> "raised"
                           [] OTHER -> "ended"
    /\ UNCHANGED <<config, sheet, load_error, sim_pc, progress, lock, got, log, engine, heap, data>>

NextRun ==
    \/ LoadInput
    \/ CreateProgress
    \/ \E i \in Sims : StartSim(i)
    \/ \E i \in Sims : CopyInput(i)
    \/ \E i \in Sims : RunEngine(i)
    \/ \E i \in Sims : Acquire(i)
    \/ \E i \in Sims : GetCurrent(i)
    \/ \E i \in Sims : SetCurrent(i)
    \/ \E i \in Sims : Release(i)
    \/ \E i \in Sims : Handler(i)
    \/ RunRaises
    \/ FinishSimulations
    \/ ProcessResults

SpecRun == InitRun /\ [][NextRun]_vars

\* ------------------------- the effectiveness bounds of the measure survey

Hundred == <<100, 1>>

\* one expert's column of a survey block before the bounds are set: the
\* rows 'expected value' and 'variance' are answers, the rows
\* 'effectiveness lower' and 'effectiveness upper' are still empty
Answer(e, v, w) ==
    [expected |-> e, variance |-> v, lower |-> NaN, upper |-> NaN, weight |-> w]

\* the row 'effectiveness lower': 100 - variance where expected + variance / 2
\* is above 100, expected - variance / 2 elsewhere, and 0 where that is
\* below 0
EffectivenessLower(e, v) ==
    LET reach_upper_limit == Gt(Add(e, Div(v, <<2, 1>>)), Hundred)
        value == IF reach_upper_limit THEN Sub(Hundred, v) ELSE Sub(e, Div(v, <<2, 1>>))
    IN IF Gt(Zero, value) THEN Zero ELSE value

\* mutant of EffectivenessUpper: the upper bound is not moved up when the
\* lower bound is cut off at 0
EffectivenessUpper_Cut(e, v) ==
    LET value == Add(e, Div(v, <<2, 1>>))
    IN IF Gt(value, Hundred) THEN Hundred ELSE value

\* the row 'effectiveness upper': variance where expected - variance / 2 is
\* below 0, expected + variance / 2 elsewhere, and 100 where that is above
\* 100
EffectivenessUpper(e, v) ==
    LET reach_lower_limit == Gt(Zero, Sub(e, Div(v, <<2, 1>>)))
        value == IF reach_lower_limit THEN v ELSE Add(e, Div(v, <<2, 1>>))
    IN IF Gt(value, Hundred) THEN Hundred ELSE value

\* the answers of an expert: expected value and variance in per cent, in
\* the range 0..100 and beyond it, and no answer
AnswerChoices ==
    { Answer(<<e, 1>>, <<v, 1>>, 1) : e \in {0, 10, 50, 90, 100}, v \in {0, 20, 100, 120} }
    \cup {Answer(NaN, NaN, 1)}

\* the survey blocks of at most MaxExperts experts before the bounds are set
BoundsInputs == UNION {[1..n -> AnswerChoices] : n \in 1..MaxExperts}

\* a survey block with expected values and variances
InitBounds ==
    /\ survey \in BoundsInputs
    /\ measure_effects = <<>>
    /\ cases = <<>>
    /\ activity_contributions = <<>>
    /\ pressure_contributions = <<>>
    /\ overlaps = <<>>
    /\ subpressures = <<>>
    /\ thresholds = <<>>
    /\ data_thresholds = InputThresholds
    /\ time_steps = 0
    /\ links = <<>>
    /\ pressure_levels = <<>>
    /\ total_pressure_load_levels = <<>>
    /\ total_pressure_load_reductions = <<>>
    /\ pc = "bounds"
    /\ time_step = 0
    /\ work = <<>>
    /\ reduction = Zero
    /\ contribution = Zero
    /\ relevant_overlaps = <<>>
    /\ relevant_pressures = <<>>
    /\ error = "none"
    /\ InReplicate

\* process_measure_survey_data: the rows 'effectiveness lower' and
\* 'effectiveness upper' are set for every expert of the block
SetBounds ==
    /\ pc = "bounds"
    /\ survey' = [i \in 1..Len(survey) |->
                     [survey[i] EXCEPT
                         !.lower = EffectivenessLower(survey[i].expected, survey[i].variance),
                         !.upper = EffectivenessUpper(survey[i].expected, survey[i].variance)]]
    /\ pc' = "survey"
    /\ UNCHANGED <<measure_effects, overlaps, subpressures, thresholds, driver, time_steps, cases,
                   links, activity_contributions, pressure_contributions, levels, locals,
                   time_step, work, error>>

\* the bounds are set, then the distribution of the block is calculated
NextBounds ==
    \/ SetBounds
    \/ ProcessSurvey

SpecBounds == InitBounds /\ [][NextBounds]_vars

\* the raw case table has no 0 in activity, pressure or state
ConcreteCases(cs) ==
    \A c \in Range(cs) : c.activity # 0 /\ c.pressure # 0 /\ c.state # 0

\* the rows of build_cases before the removal of duplicates
ExpandedAndFiltered(cs, ls) ==
    SelectSeq(Flatten(MapSeq(cs, LAMBDA row : ExplodeCase(row, ls))),
              LAMBDA c : existing_links(c, ls))

\* (coverage, implementation) of a is lexicographically at least that of b
LexAtLeast(a, b) ==
    \/ Gt(a.coverage, b.coverage)
    \/ a.coverage = b.coverage /\ Leq(b.implementation, a.implementation)

\* C11: every row that build_cases returns has the (measure, activity,
\* pressure, state) key of some row of the link table.
C11_CaseKeysAreLinkKeys ==
    [][ pc = "build_cases" =>
            \A c \in Range(cases') : \E l \in Range(links) : LinkKey(l) = LinkKey(c)
      ]_vars

\* C12: build_cases returns no two rows with the same (measure, activity,
\* pressure, state, area) key; every key present after expansion and filtering
\* is returned, with the lexicographically largest (coverage, implementation)
\* among the rows of that key.
C12_DeduplicatedKeepsLargest ==
    [][ pc = "build_cases" =>
            LET rows == ExpandedAndFiltered(cases, links) IN
            /\ \A i, j \in 1..Len(cases') : CaseKey(cases'[i]) = CaseKey(cases'[j]) => i = j
            /\ Range(cases') \subseteq Range(rows)
            /\ \A r \in Range(rows) :
                  \E c \in Range(cases') :
                      CaseKey(c) = CaseKey(r) /\ LexAtLeast(c, r)
      ]_vars

\* C12 witness: build_cases is given two rows of one key, the first with the
\* smaller coverage and the larger implementation, and returns the second
C12_Witness ==
    /\ pc = "build_cases"
    /\ cases = <<CaseRow(2, 1, 1, 1, 1, Half, One), CaseRow(2, 1, 1, 1, 1, One, Half)>>
    /\ build_cases(cases, links) = <<CaseRow(2, 1, 1, 1, 1, One, Half)>>

\* C13 as stated: on a case table without 0 in activity, pressure and state
\* build_cases returns the same set of rows, and build_cases of its output is
\* that output.
C13_ConcreteCasesUnchanged ==
    [][ (pc = "build_cases" /\ ConcreteCases(cases)) =>
            /\ Range(cases') = Range(cases)
            /\ build_cases(cases', links) = cases'
      ]_vars

\* C13 amended: on a case table without 0 in activity, pressure and state,
\* whose rows have pairwise different keys, a measure with a link and column
\* values that occur in the link table, build_cases returns the same set of
\* rows; on every case table without 0 build_cases returns a subset of the
\* rows, and build_cases of its output is that output.
C13_ConcreteLinkedCasesUnchanged ==
    [][ (pc = "build_cases" /\ ConcreteCases(cases)) =>
            /\ Range(cases') \subseteq Range(cases)
            /\ ( /\ \A i, j \in 1..Len(cases) :
                        CaseKey(cases[i]) = CaseKey(cases[j]) => i = j
                  /\ \A c \in Range(cases) : existing_links(c, links) )
                  => Range(cases') = Range(cases)
            /\ build_cases(cases', links) = cases'
      ]_vars

\* C13 witness: build_cases is given two rows without 0 and returns both
C13_Witness ==
    /\ pc = "build_cases"
    /\ Len(cases) = 2
    /\ ConcreteCases(cases)
    /\ cases[1] # cases[2]
    /\ Range(build_cases(cases, links)) = Range(cases)

\* the values of C14 for one column of a case row
C14_Values(row, ls, col) ==
    IF row[col] = 0 THEN {l[col] : l \in {x \in Range(ls) : x.measure = row.measure}}
    ELSE {row[col]}

\* C14: a case row is expanded to one row per element of the cartesian
\* product of the three value sets computed for that row: the cell itself, or
\* for a 0 the distinct values of the column among the links of the row's
\* measure; a row whose measure has no link is expanded to nothing.
C14_ExpansionIsCartesianProduct ==
    pc = "build_cases" =>
        \A i \in 1..Len(cases) :
            LET row == cases[i]
                out == ExplodeCase(row, links)
                product == { [row EXCEPT !.activity = a, !.pressure = p, !.state = st] :
                                 a \in C14_Values(row, links, "activity"),
                                 p \in C14_Values(row, links, "pressure"),
                                 st \in C14_Values(row, links, "state") }
            IN IF \A l \in Range(links) : l.measure # row.measure
               THEN out = <<>>
               ELSE /\ Range(out) = product
                    /\ Len(out) = Cardinality(product)

\* C14 witness: build_cases is about to expand a row with 0 in every column
\* whose measure has links with two activities and two pressures, next to a
\* row whose measure has no link
C14_Witness ==
    /\ pc = "build_cases"
    /\ Len(cases) = 2
    /\ CaseKey(cases[1]) = <<1, 0, 0, 0, 1>>
    /\ cases[2].measure = 2
    /\ Len(ExplodeCase(cases[1], links)) = 4
    /\ ExplodeCase(cases[2], links) = <<>>

\* the positions of the three stages of the simulation body
Stages == {"step1", "step2", "step3"}

\* C15: build_changes ends for every input; the three stages run in order,
\* exactly time_steps times, the loop ending on the count alone; with
\* time_steps = 0 every pressure level and total pressure load level is 1 and
\* every total pressure load reduction is 0; no reduction is drawn and no
\* input table of the replicate is replaced while build_changes runs.
C15_RunsExactlyTimeSteps ==
    /\ <>Ended
    /\ [](pc \in {"post", "done"} => time_step = time_steps)
    /\ [](pc \in Stages => time_step < time_steps)
    /\ []((pc = "done" /\ time_steps = 0) =>
              /\ \A k \in DOMAIN pressure_levels : pressure_levels[k] = One
              /\ \A k \in DOMAIN total_pressure_load_levels :
                    /\ total_pressure_load_levels[k] = One
                    /\ total_pressure_load_reductions[k] = Zero)
    /\ [][ /\ pc \in Stages =>
                 /\ UNCHANGED <<links, cases, measure_effects, overlaps, subpressures, time_steps>>
                 /\ pc' \in Stages \union {"post", "failed"}
           /\ (pc = "step1" /\ pc' # "step1") => pc' = "step2" /\ time_step' = time_step
           /\ (pc = "step2" /\ pc' # "step2") => pc' = "step3" /\ time_step' = time_step
           /\ (pc = "step3" /\ pc' \notin {"step3", "failed"}) =>
                 /\ time_step' = time_step + 1
                 /\ pc' = IF time_step' = time_steps THEN "post" ELSE "step1"
         ]_vars

\* C15 witness: build_changes has returned after two time steps that lowered
\* a pressure level
C15_Witness ==
    /\ pc = "done"
    /\ time_steps = 2
    /\ time_step = 2
    /\ \E k \in DOMAIN pressure_levels : Gt(One, pressure_levels[k])

\* the sum of the weights p over the buckets of S
RECURSIVE WeightSum(_, _)
WeightSum(p, S) ==
    IF S = {} THEN Zero
    ELSE LET i == CHOOSE j \in S : TRUE IN Add(p[i], WeightSum(p, S \ {i}))

\* the sum of the buckets of an array distribution (nan when a bucket is nan)
BucketSum(d) ==
    IF \E i \in DOMAIN d.p : IsNaN(d.p[i]) THEN NaN ELSE WeightSum(d.p, DOMAIN d.p)

\* C16: every array that get_prob_dist returns has 101 buckets, each at
\* least 0, and the buckets sum to 1, also when picks lie outside [0,1].
C16_DistributionsAreNormalized ==
    \A r \in Range(measure_effects) :
        r.probability.kind = "array" =>
            /\ r.probability.size = 101
            /\ \A i \in DOMAIN r.probability.p : Leq(Zero, r.probability.p[i])
            /\ BucketSum(r.probability) = One

\* the expert gave the same answer v, with 0 <= v <= 100, to all three questions
SameAnswer(x) ==
    /\ x.lower = x.expected /\ x.upper = x.expected
    /\ InUnit(Div(x.expected, <<100, 1>>))

\* the integer nearest to a finite value that is not halfway between two
NearestBucket(a) ==
    CHOOSE b \in 0..100 : 2 * Abs(a[1] - b * a[2]) < a[2]

Failed(i) == sim_pc[i] \in {"except", "returned0", "raised", "exited"}

\* run() has left the simulations behind after starting them
SimulationsOver ==
    /\ load_error = "none"
    /\ ~config.skip_sim
    /\ run_pc \in {"results", "ended", "raised", "exited"}

\* C18: a replicate whose try block raises does not raise to its caller and
\* does not end the process; when run_sim has returned 0 the traceback is
\* in the log of the replicate; and run() leaves the simulations only
\* after every replicate has been executed, with the pool and without it.
C18_FailingReplicateAbortsOnlyItself ==
    /\ \A i \in Sims :
          Failed(i) =>
              /\ sim_pc[i] \in {"except", "returned0"}
              /\ sim_pc[i] = "returned0" => \E k \in DOMAIN log[i] : log[i][k] = "traceback"
    /\ SimulationsOver => \A i \in Sims : sim_pc[i] \in Returned

\* the replicates that have written progress.current
Counted == {i \in Sims : sim_pc[i] \in {"display", "returned1"}}

\* C19: in every interleaving of the replicates, a replicate reads and
\* writes progress.current only while it holds the lock; the counter never
\* decreases and changes only by the increment of the holder of the lock;
\* it counts every replicate that got past its increment exactly once, never
\* exceeds progress.total, and when no replicate is running any more it is
\* the number of replicates that returned 1.
C19_CounterIsLockedAndCountsSuccesses ==
    /\ [](\A i \in Sims : sim_pc[i] \in {"get", "set", "display"} => lock = i)
    /\ [](progress.current = Cardinality(Counted))
    /\ [](progress.current <= progress.total)
    /\ []((\A i \in Sims : sim_pc[i] \in Returned \cup {"waiting", "raised", "exited"}) =>
             progress.current = Cardinality({i \in Sims : sim_pc[i] = "returned1"}))
    /\ [][ /\ progress'.current >= progress.current
           /\ progress'.current # progress.current =>
                 \E i \in Sims : /\ lock = i
                                 /\ sim_pc[i] = "set"
                                 /\ sim_pc'[i] = "display"
                                 /\ progress'.current = progress.current + 1
       ]_vars

\* C19 witness: with the pool, one replicate has returned 1, a second one
\* holds the lock between its read and its write of the counter, and a third
\* one waits for the lock
C19_Witness ==
    /\ config.use_parallel_processing
    /\ \E i, j, k \in Sims :
          /\ sim_pc[i] = "returned1"
          /\ sim_pc[j] = "set" /\ lock = j /\ got[j] = 1
          /\ sim_pc[k] = "lock"
    /\ progress.current = 1

\* C20: once build_input has been tried, a sheet in which some expert has
\* another number of answers than there are questions has made it raise;
\* and whenever build_input has raised, the program has exited with no
\* replicate started (no log opened) and without reaching the results.
C20_LoadFailureHaltsBeforeReplicates ==
    /\ (run_pc # "load" /\ process_pressure_survey_data(sheet) = "Exception") =>
           load_error = "Exception"
    /\ load_error # "none" =>
           /\ run_pc = "exited"
           /\ \A i \in Sims : sim_pc[i] = "waiting" /\ log[i] = <<>>
           /\ progress = [current |-> 0, total |-> 0]

\* C20 witness: the second expert of the sheet has one answer for two
\* questions, simulations are not skipped, and the program has exited at
\* build_input
C20_Witness ==
    /\ sheet = [questions |-> 2, answers |-> <<2, 1>>]
    /\ ~config.skip_sim
    /\ load_error = "Exception"
    /\ run_pc = "exited"

\* the link's reduction of case m times coverage and implementation
BaseReduction(m) ==
    Mul(Mul(LinkRows(links, m)[1].reduction, m.coverage), m.implementation)

\* the next iteration of stage 1 or 2 processes a case that has one link
CaseHasLink == work # <<>> /\ Len(LinkRows(links, CurrentCase)) = 1

\* the overlap rows in which the measure of case m is the overlapped one on
\* the pressure of the case
OverlapsOn(m) ==
    SelectSeq(overlaps, LAMBDA o : o.Overlapped = m.measure /\ o.Pressure = m.pressure)

\* measure x is the measure of a case of the area other than case number row
AppliedBeside(x, area, row) ==
    \E i \in 1..Len(cases) : i # row /\ cases[i].area_id = area /\ cases[i].measure = x

\* C23: in stage 1, when none of the overlap rows on the case's measure and
\* pressure has an overlapping measure that is itself the measure of another
\* case of the area, the reduction of the case is the link's reduction x
\* coverage x implementation, with no multiplier applied.
C23_OverlapNeedsOverlappingCase ==
    [][ ( /\ pc = "step1"
          /\ CaseHasLink
          /\ \A o \in Range(OverlapsOn(CurrentCase)) :
                ~AppliedBeside(o.Overlapping, Head(work).area, Head(work).row) ) =>
            reduction' = BaseReduction(CurrentCase)
      ]_vars

\* the overlap rows on the measure and pressure of case m that are for every
\* activity (0) or for the activity of the case
OverlapsForActivity(m) ==
    SelectSeq(OverlapsOn(m), LAMBDA o : o.Activity = 0 \/ o.Activity = m.activity)

\* C24: in stage 1 the reduction of a case is the link's reduction x coverage
\* x implementation times the product of the multipliers of the overlap rows
\* on its measure and pressure whose activity is 0 or the case's activity;
\* rows of another non-zero activity are not applied.
C24_WildcardOverlapAppliesToEveryActivity ==
    [][ (pc = "step1" /\ CaseHasLink) =>
            reduction' = ApplyMultipliers(BaseReduction(CurrentCase),
                                          OverlapsForActivity(CurrentCase))
      ]_vars

\* the overlap rows with the measure of case m as the overlapped one, the
\* activity of the case and the pressure of the case
OverlapsOfCase(m) ==
    SelectSeq(overlaps, LAMBDA o : /\ o.Overlapped = m.measure
                                   /\ o.Activity = m.activity
                                   /\ o.Pressure = m.pressure)

\* C25: in stage 2 the reduction of a case with a link is the link's
\* reduction x coverage x implementation times the multiplier of every
\* overlap row of the whole table with the case's measure as overlapped, the
\* case's activity and the case's pressure, and the total pressure load level
\* of the case's state and area is multiplied by (1 - reduction).
C25_Stage2UsesOverlapsOfCasePressure ==
    [][ (pc = "step2" /\ CaseHasLink) =>
            /\ reduction' = ApplyMultipliers(BaseReduction(CurrentCase),
                                             OverlapsOfCase(CurrentCase))
            /\ total_pressure_load_levels'[<<Head(work).ID, Head(work).area>>] =
                   Mul(total_pressure_load_levels[<<Head(work).ID, Head(work).area>>],
                       Sub(One, reduction'))
      ]_vars

\* build_changes is running
InBuildChanges == pc \in {"build_changes", "step1", "step2", "step3", "post"}

\* the activity contribution tables have the same rows but for the values
SameActivityRows(a, b) ==
    /\ Len(a) = Len(b)
    /\ \A i \in 1..Len(a) : [a[i] EXCEPT !.value = Zero] = [b[i] EXCEPT !.value = Zero]

\* the pressure contribution tables have the same rows but for the averages
SamePressureRows(a, b) ==
    /\ Len(a) = Len(b)
    /\ \A i \in 1..Len(a) : [a[i] EXCEPT !.average = Zero] = [b[i] EXCEPT !.average = Zero]

\* C26: no step of build_changes changes the links, the cases, the overlaps,
\* the subpressures, the measure effects or the input threshold table; of
\* the two contribution tables it changes values only; the level tables
\* change only in the loop (and the reductions and data['thresholds'] after
\* it), and the time step only at the end of an iteration.
C26_BuildChangesFrame ==
    [][ InBuildChanges =>
            /\ links' = links
            /\ cases' = cases
            /\ overlaps' = overlaps
            /\ subpressures' = subpressures
            /\ measure_effects' = measure_effects
            /\ thresholds' = thresholds
            /\ SameActivityRows(activity_contributions, activity_contributions')
            /\ SamePressureRows(pressure_contributions, pressure_contributions')
            /\ pc \in {"step1", "step2", "step3"} =>
                   /\ total_pressure_load_reductions' = total_pressure_load_reductions
                   /\ data_thresholds' = data_thresholds
                   /\ time_steps' = time_steps
            /\ pc = "post" =>
                   /\ pressure_levels' = pressure_levels
                   /\ total_pressure_load_levels' = total_pressure_load_levels
                   /\ activity_contributions' = activity_contributions
                   /\ pressure_contributions' = pressure_contributions
      ]_vars

\* C26 witness: build_changes has returned after a loop that raised an
\* activity contribution above 1 and lowered a total pressure load level,
\* with links, cases, overlaps and the threshold table in place and the
\* threshold tables in data
C26_Witness ==
    /\ pc = "done" /\ time_steps >= 1
    /\ links # <<>> /\ cases # <<>> /\ overlaps # <<>> /\ thresholds = ThresholdTable
    /\ DOMAIN data_thresholds = ThresholdCols
    /\ \E r \in Range(activity_contributions) : Gt(r.value, One)
    /\ \E k \in DOMAIN total_pressure_load_levels : total_pressure_load_levels[k] # One

\* the rows of a contribution table that belong to an area
RowsOfArea(t, area) == SelectSeq(t, LAMBDA r : r.area_id = area)

\* C28: an iteration of stage 1, 2 or 3 for area A leaves the levels and the
\* contribution rows of every other area unchanged, uses in stage 1 the
\* contribution of a row of area A, and changes the total pressure load
\* level of area A in stage 3 only by a pressure contribution row of area A.
C28_AreaIsolation ==
    [][ (pc \in {"step1", "step2", "step3"} /\ work # <<>>) =>
            LET A == Head(work).area IN
            /\ \A k \in DOMAIN pressure_levels :
                  k[2] # A => pressure_levels'[k] = pressure_levels[k]
            /\ \A k \in DOMAIN total_pressure_load_levels :
                  k[2] # A => total_pressure_load_levels'[k] = total_pressure_load_levels[k]
            /\ \A B \in Range(areas(cases)) \ {A} :
                  /\ RowsOfArea(activity_contributions', B) = RowsOfArea(activity_contributions, B)
                  /\ RowsOfArea(pressure_contributions', B) = RowsOfArea(pressure_contributions, B)
            /\ (pc = "step1" /\ CaseHasLink /\ contribution' # Zero) =>
                  \E r \in Range(RowsOfArea(activity_contributions, A)) : contribution' = r.value
            /\ (pc = "step3" /\ total_pressure_load_levels' # total_pressure_load_levels) =>
                  CurrentPressureRow.area_id = A
      ]_vars

\* the key of a level table that the iteration at the head of work updates
CurrentLevel == <<Head(work).ID, Head(work).area>>

\* case number i has a pressure ID and a state ID
OnPressureAndState(i) ==
    cases[i].pressure \in Range(PressureIDs) /\ cases[i].state \in Range(StateIDs)

\* C29: a case with a pressure ID and a state ID is taken by stage 1 and by
\* stage 2 of the same time step: when stage 1 ends, the iterations of stage
\* 2 hold the case under its state and area; the stage 1 iteration of a case
\* with a link multiplies the pressure level of its pressure and area by
\* (1 - reduction x contribution), the stage 2 iteration multiplies the
\* total pressure load level of its state and area by (1 - reduction), and
\* stage 3 follows stage 2 within the time step.
C29_CaseOnPressureAndStateAppliedTwice ==
    [][ /\ (pc = "step1" /\ pc' = "step2") =>
              /\ time_step' = time_step
              /\ \A i \in 1..Len(cases) :
                    OnPressureAndState(i) =>
                        /\ \E w \in Range(Step1Work(cases)) :
                              w.row = i /\ w.ID = cases[i].pressure /\ w.area = cases[i].area_id
                        /\ \E w \in Range(work') :
                              w.row = i /\ w.ID = cases[i].state /\ w.area = cases[i].area_id
        /\ (pc = "step1" /\ CaseHasLink /\ pc' = "step1") =>
              pressure_levels'[CurrentLevel] =
                  Mul(pressure_levels[CurrentLevel], Sub(One, Mul(reduction', contribution')))
        /\ (pc = "step2" /\ CaseHasLink) =>
              /\ reduction' = Step2Reduction(CurrentCase, LinkRows(links, CurrentCase)[1],
                                             relevant_overlaps)
              /\ total_pressure_load_levels'[CurrentLevel] =
                     Mul(total_pressure_load_levels[CurrentLevel], Sub(One, reduction'))
        /\ pc = "step2" => pc' \in {"step2", "step3"} /\ time_step' = time_step
      ]_vars

\* C29 witness: stage 3 of the first time step is about to start; the only
\* case, on pressure 1 and state 1 of area 1, has lowered the pressure level
\* in stage 1 and the total pressure load level in stage 2
C29_Witness ==
    /\ pc = "step3" /\ time_step = 0
    /\ work = Step3Work(pressure_contributions, cases) /\ work # <<>>
    /\ Len(cases) = 1 /\ OnPressureAndState(1)
    /\ cases[1].pressure = 1 /\ cases[1].state = 1 /\ cases[1].area_id = 1
    /\ Gt(One, pressure_levels[<<1, 1>>])
    /\ Gt(One, total_pressure_load_levels[<<1, 1>>])

\* 1 - reduction x contribution of the iteration that has just set both
Divisor == Sub(One, Mul(reduction', contribution'))

\* C30: whenever stage 1 or stage 3 divides the contributions of a group,
\* the divisor 1 - reduction x contribution is greater than 0, and
\* afterwards every activity contribution and every pressure contribution
\* is finite and within [0,1]; with reduction x contribution = 1 the level
\* becomes 0.
C30_DivisorStaysPositive ==
    [][ /\ ( /\ pc = "step1" /\ CaseHasLink /\ pc' = "step1" ) =>
              /\ Gt(Divisor, Zero)
              /\ \A r \in Range(activity_contributions') : IsFinite(r.value) /\ InUnit(r.value)
              /\ Mul(reduction', contribution') = One => pressure_levels'[CurrentLevel] = Zero
        /\ ( /\ pc = "step3" /\ work # <<>> /\ pc' = "step3" ) =>
              /\ Gt(Divisor, Zero)
              /\ \A r \in Range(pressure_contributions') : IsFinite(r.average) /\ InUnit(r.average)
              /\ Mul(reduction', contribution') = One =>
                    total_pressure_load_levels'[CurrentLevel] = Zero
      ]_vars

\* the answer is a finite value from 0 to 100
InPerCent(a) == Leq(Zero, a) /\ Leq(a, Hundred)

\* C27: for every expert whose expected value e and variance v lie in
\* [0,100], the bounds that process_measure_survey_data sets satisfy
\* 0 <= lower <= e <= upper <= 100 and upper - lower = v; with e - v/2 < 0
\* they are 0 and v, with e + v/2 > 100 they are 100 - v and 100, and
\* e - v/2 and e + v/2 otherwise.
C27_EffectivenessBounds ==
    [][ pc = "bounds" =>
          \A i \in 1..Len(survey) :
            LET e == survey[i].expected
                v == survey[i].variance
                half == Div(v, <<2, 1>>)
                lower == survey'[i].lower
                upper == survey'[i].upper
            IN (InPerCent(e) /\ InPerCent(v)) =>
                 /\ Leq(Zero, lower) /\ Leq(lower, e) /\ Leq(e, upper) /\ Leq(upper, Hundred)
                 /\ Sub(upper, lower) = v
                 /\ IF Gt(Zero, Sub(e, half)) THEN lower = Zero /\ upper = v
                    ELSE IF Gt(Add(e, half), Hundred)
                    THEN upper = Hundred /\ lower = Sub(Hundred, v)
                    ELSE lower = Sub(e, half) /\ upper = Add(e, half)
      ]_vars

\* C27 witness: the bounds are set for two experts, one whose spread was cut
\* off at 0 (expected 10, variance 100: bounds 0 and 100) and one whose
\* spread was cut off at 100 (expected 90, variance 20: bounds 80 and 100)
C27_Witness ==
    /\ pc = "survey"
    /\ Len(survey) = 2
    /\ survey[1] = [Answer(<<10, 1>>, <<100, 1>>, 1) EXCEPT !.lower = Zero, !.upper = Hundred]
    /\ survey[2] = [Answer(<<90, 1>>, <<20, 1>>, 1) EXCEPT !.lower = <<80, 1>>, !.upper = Hundred]


\* the object replicate i has copied for itself
Copied(i) == sim_pc[i] \notin {"waiting", "try"}

\* a replicate that is about to run the engine on its tables
AtEngine(i) == sim_pc[i] = "engine"

\* the step changes the tables of no object but the copy of a replicate
\* that runs the engine in this step
OnlyOwnCopyChanges ==
    \A x \in DOMAIN heap \cap DOMAIN heap' :
        heap'[x] # heap[x] =>
            \E i \in Sims : /\ x = Copy(i)
                            /\ AtEngine(i)
                            /\ ~AtEngine(i)'

\* C21: each replicate works on its own copy of the loaded input: the input
\* tables never change, every replicate starts the engine from the values
\* of the input, no two replicates work on the same object, and a change a
\* replicate makes changes its own copy only
C21_ReplicatesAreIsolated ==
    /\ [][heap'[Input] = heap[Input]]_vars
    /\ [](\A i \in Sims : AtEngine(i) => heap[data[i]] = heap[Input])
    /\ [](\A i, j \in Sims : Copied(i) /\ Copied(j) /\ i # j => data[i] # data[j])
    /\ [](\A i \in Sims : Copied(i) => data[i] # Input)
    /\ [][OnlyOwnCopyChanges]_vars

\* C21 witness: the first replicate has run the engine and its tables
\* differ from the input, and the second is about to run the engine on
\* tables equal to the input
C21_Witness ==
    /\ config.simulations >= 2
    /\ sim_pc[0] = "lock"
    /\ data[0] = Copy(0)
    /\ heap[data[0]] # heap[Input]
    /\ AtEngine(1)
    /\ heap[data[1]] = heap[Input]


\* both runs have set the seed of the config and have drawn their reduction
BothSeededRunsDone == config.use_random_seed /\ \A r \in Runs : runs[r].pc = "done"

\* C22: two runs that set the same random seed and synthesize the
\* distribution of the same expert answers obtain the same distribution,
\* and the same reduction from get_pick
C22_SeededRunsAgree ==
    pc = "seed" /\ BothSeededRunsDone =>
        /\ runs[1].dist = runs[2].dist
        /\ runs[1].outcome = runs[2].outcome

\* two seeded runs that did obtain the same distribution draw the same
\* reduction from it: get_pick uses the generator that the seed sets
SeededPicksAgree ==
    pc = "seed" /\ BothSeededRunsDone /\ runs[1].dist = runs[2].dist =>
        runs[1].outcome = runs[2].outcome

\* the outcome of get_pick under a seed is one of the outcomes of get_pick
SeededPickIsAPick ==
    pc = "seed" => \A r \in Runs : runs[r].pc = "done" => runs[r].outcome \in get_pick(runs[r].dist)

\* two seeded runs on answers without a spread obtain the same distribution
DegenerateAnswersAgree ==
    /\ pc = "seed"
    /\ BothSeededRunsDone
    /\ \A k \in 1..Len(survey) : survey[k].lower = survey[k].upper
    => runs[1].dist = runs[2].dist

============================================================================
